---- MODULE Spec2Model ----
(***************************************************************************)
(* A model of the bookify reading tracker: the books and daily_reading     *)
(* tables, the two components that log reading progress (ReadingProgress   *)
(* and ReadingDashboard), the BookShelf status changes, the add-book       *)
(* paths, and the statistics computed from the stored rows.                *)
(***************************************************************************)
EXTENDS Integers, Sequences, FiniteSets, TLC

(***************************************************************************)
(* Bounds of the model.                                                    *)
(***************************************************************************)
\* largest total_pages a book is created with
MaxTotal == 2
\* largest value typed into the "pages read" input
MaxDelta == 1
\* number of days the progress model runs over
MaxDay == 2
\* number of updateProgress calls a run makes
MaxCalls == 2
\* number of days the status model runs over
MaxTime == 4
\* days in a calendar year of the model
DaysPerYear == 2
\* last day a daily_reading row of the streak model is dated
MaxDate == 4
\* the page count the Google Books lookup answers with
GooglePages == 2
\* number of volumes the Google Books searches of find-series-books answer with
MaxItems == 2
\* latest publish date of a volume
MaxPublished == 2
\* number of volumes the Google Books search of search-series answers with
MaxVolumes == 2
\* the statistics: at most MaxBooks books, a reading goal of at most MaxGoal
MaxBooks == 2
MaxGoal == 3
\* number of add-series requests, and of books in one request
MaxRequests == 2
MaxRequested == 2

\* null / undefined of a numeric or timestamp column (falsy in the code)
Null == 0

BookIds == {"b1", "b2"}
Tabs == {"rp", "dash"}
Statuses == {"planned", "current", "past"}
SeriesNames == {"null", "S"}

\* what <Input type="number"> with parseInt(value) || 0 can hand to setPagesRead
PagesInputs == (0 - 1) .. MaxDelta

Min(a, b) == IF a <= b THEN a ELSE b
Max(a, b) == IF a >= b THEN a ELSE b
Abs(a) == IF a < 0 THEN 0 - a ELSE a

VARIABLES
    books,          \* table books: id -> row (status "absent": no such row)
    daily_reading,  \* table daily_reading: set of rows
    now,            \* the clock, in days
    currentBook,    \* per tab: the component's currentBook state
    pagesRead,      \* per tab: the component's pagesRead state
    reload,         \* per tab: a loadCurrentBook() call is in flight
    pc,             \* per tab: "idle" or "busy" (inside updateProgress)
    call,           \* per tab: the closure of the running updateProgress, and
                    \* the outcome of the two requests of the last one
    logged,         \* history: book -> sum of the deltas whose books update was applied
    nCalls,         \* history: number of updateProgress calls started
    firstPast,      \* history: book -> when it first had status 'past' (Null: never)
    sortedDates,    \* calculateStreaks: its argument
    idx,            \* calculateStreaks: loop index i (0-based, as in the code)
    tempStreak,     \* calculateStreaks: tempStreak
    longestStreak,  \* calculateStreaks: longestStreak
    currentStreak,  \* calculateStreaks: currentStreak
    spc,            \* calculateStreaks: "idle", "loop" or "done"
    seriesBooks,    \* SeriesProgress: titles of the user's books of the series
    items,          \* find-series-books: the volumes the Google Books searches answer with
    uniqueBooks,    \* find-series-books: uniqueBooks after the sort
    suggestions,    \* find-series-books: the response body
    otherBooksInSeries, \* SeriesProgress: the 'Others in Series' list
    fpc,            \* SeriesProgress.loadSeriesBooks: "idle", "asked", "answered" or "done"
    seriesResults,  \* search-series: the response body
    searchStatus,   \* search-series: the response status (0: not answered)
    bookInfo,       \* detectSeries: its argument
    detectResponse, \* detect-series: the response (status 0: none yet)
    detectResult,   \* detectSeries: the SeriesInfo it resolves to
    aiError,        \* history: how the AI-assisted path failed ("none": it did not)
    dpc,            \* detectSeries: "idle", "sent", "answered" or "done"
    userData,       \* what the statistics read: the user's books, daily_reading rows
                    \* and user_settings row
    stats,          \* reading-analysis: the stats of each request, in order
    dashStats,      \* ReadingDashboard: its stats state
    loading,        \* ReadingDashboard: its loading state
    readingGoals,   \* recommendations page: its readingGoals state (<< >>: null)
    gpc,            \* recommendations page: "idle", or "done" once fetchReadingGoals returned
    updateSuccess,  \* ReadingDashboard: its updateSuccess state
    dashError,      \* ReadingDashboard: its error state ("null": none)
    deleteDialog,   \* SeriesProgress: deleteDialog.book, the id of the book ("none": null)
    delpc,          \* confirmDeleteBook: "idle", or "book" once the daily_reading rows are deleted
    toast,          \* SeriesProgress: the last toast, "none", "deleted" or "error"
    deletedBooks,   \* history: the books whose row a confirmDeleteBook has deleted
    shelf,          \* table books, the user's rows of the series: title -> number of rows
    addReq          \* add-series: per request, where it is and what it holds

storageVars == <<books, daily_reading, now>>
clientVars == <<currentBook, pagesRead, reload, pc, call>>
historyVars == <<logged, nCalls, firstPast>>
streakVars == <<sortedDates, idx, tempStreak, longestStreak, currentStreak, spc>>
seriesVars == <<seriesBooks, items, uniqueBooks, suggestions, otherBooksInSeries, fpc>>
\* the state of the request handlers and computations that do not touch the tables
searchVars == <<seriesResults, searchStatus>>
detectVars == <<bookInfo, detectResponse, detectResult, aiError, dpc>>
statsVars == <<userData, stats, dashStats, loading, readingGoals, gpc>>
dashVars == <<updateSuccess, dashError>>
deleteVars == <<deleteDialog, delpc, toast, deletedBooks>>
addVars == <<shelf, addReq>>
otherVars == <<dashVars, deleteVars, addVars>>
pureVars == <<seriesVars, searchVars, detectVars, statsVars, otherVars>>
vars == <<books, daily_reading, now, currentBook, pagesRead, reload, pc, call,
          logged, nCalls, firstPast,
          sortedDates, idx, tempStreak, longestStreak, currentStreak, spc,
          seriesBooks, items, uniqueBooks, suggestions, otherBooksInSeries, fpc,
          seriesResults, searchStatus,
          bookInfo, detectResponse, detectResult, aiError, dpc,
          userData, stats, dashStats, loading, readingGoals, gpc,
          updateSuccess, dashError, deleteDialog, delpc, toast, deletedBooks,
          shelf, addReq>>

(***************************************************************************)
(* Rows.                                                                   *)
(***************************************************************************)
NoBook == [status |-> "absent", date_completed |-> Null, current_page |-> 0,
           total_pages |-> Null, is_part_of_series |-> FALSE, series_name |-> "null"]

NoCopy == [id |-> "none", current_page |-> 0, total_pages |-> Null]

NoCall == [book |-> NoCopy, pagesRead |-> 0, date |-> 0,
           progress |-> "none", update |-> "none"]

\* the titles the books of the series go by
SeriesTitles == {<<"a">>, <<"A">>, <<"b">>}

AddRequests == 1 .. MaxRequests

\* an add-series request that has not arrived
NoRequest == [pc |-> "idle", books |-> << >>, newBooks |-> << >>,
              status |-> 0, added |-> 0, skipped |-> 0]

\* the rows a query .eq('status', 'current') returns
CurrentBooks == {b \in BookIds : books[b].status = "current"}

(***************************************************************************)
(* updateProgress: the value written to books.current_page.                *)
(***************************************************************************)
NewCurrentPageNoClamp(book, delta) == book.current_page + delta

NewCurrentPage(book, delta) ==
    IF book.total_pages # Null
    THEN Min(book.current_page + delta, book.total_pages)
    ELSE book.current_page + delta

(***************************************************************************)
(* supabase .upsert(row) on daily_reading with no onConflict option: the   *)
(* conflict target is the primary key id, which the row does not carry and *)
(* the table defaults to a fresh uuid, so the statement is an INSERT; the  *)
(* UNIQUE (user_id, book_id, date) constraint rejects a second row for the *)
(* triple.                                                                 *)
(***************************************************************************)
\* the books table holds a row of this id
BookExists(b) == books[b].status # "absent"

UpsertDaily(table, row) ==
    IF ~BookExists(row.book_id)
    THEN [error |-> "foreign key", table |-> table]
    ELSE IF \E r \in table : r.book_id = row.book_id /\ r.date = row.date
         THEN [error |-> "duplicate", table |-> table]
         ELSE [error |-> "ok", table |-> table \cup {row}]

\* .update({ current_page }).eq('id', ...): writes the row if there is one
UpdateCurrentPage(c) ==
    IF BookExists(c.book.id)
    THEN [books EXCEPT ![c.book.id].current_page = NewCurrentPage(c.book, c.pagesRead)]
    ELSE books

\* a request the network loses
NetworkError(table) == [error |-> "network", table |-> table]

\* the closure is gone once updateProgress returns; the outcome stays
Settled(c, progress, update) == [NoCall EXCEPT !.progress = progress, !.update = update]

DailyRow(c) == [book_id |-> c.book.id, date |-> c.date, pages_read |-> c.pagesRead]

(***************************************************************************)
(* loadCurrentBook (both components): fetch the single 'current' book; if  *)
(* it has no total_pages, ask Google Books (answer g, Null for none or a   *)
(* failed fetch) and store the page count.  The component keeps the page   *)
(* count whether or not the update reached the table (netOk).              *)
(***************************************************************************)
LoadCurrentBook(t, g, netOk) ==
    /\ reload[t]
    /\ pc[t] = "idle"
    /\ reload' = [reload EXCEPT ![t] = FALSE]
    /\ IF Cardinality(CurrentBooks) = 1
       THEN LET b == CHOOSE x \in CurrentBooks : TRUE
                row == books[b]
                fill == row.total_pages = Null /\ g # Null
                total == IF fill THEN g ELSE row.total_pages
            IN /\ currentBook' = [currentBook EXCEPT ![t] =
                      [id |-> b, current_page |-> row.current_page, total_pages |-> total]]
               /\ books' = IF fill /\ netOk
                           THEN [books EXCEPT ![b].total_pages = g]
                           ELSE books
       ELSE UNCHANGED <<currentBook, books>>
    /\ UNCHANGED <<daily_reading, now, pagesRead, pc, call>>
    /\ UNCHANGED historyVars
    /\ UNCHANGED streakVars
    /\ UNCHANGED pureVars

(***************************************************************************)
(* The reader types v into the number input (onChange: setPagesRead of     *)
(* parseInt(value) || 0) and clicks the button: the guard of               *)
(* updateProgress, and the closure the call runs with.  pagesRead is read  *)
(* by nothing else, so typing and clicking are one step.                   *)
(***************************************************************************)
StartCall(t, v, progress, update) ==
    /\ pc[t] = "idle"
    /\ currentBook[t] # NoCopy
    /\ nCalls < MaxCalls
    /\ pagesRead' = [pagesRead EXCEPT ![t] = v]
    /\ IF v = 0
       THEN UNCHANGED <<pc, call, nCalls>>
       ELSE /\ pc' = [pc EXCEPT ![t] = "busy"]
            /\ call' = [call EXCEPT ![t] = [book |-> currentBook[t], pagesRead |-> v,
                                            date |-> now, progress |-> progress,
                                            update |-> update]]
            /\ nCalls' = nCalls + 1
    /\ UNCHANGED <<books, daily_reading, now, currentBook, reload>>
    /\ UNCHANGED <<logged, firstPast>>
    /\ UNCHANGED streakVars
    /\ UNCHANGED pureVars

\* the history once a call's books update has been applied
Logged(c) == [logged EXCEPT ![c.book.id] = @ + c.pagesRead]

(***************************************************************************)
(* ReadingProgress.updateProgress: upsert, throw on its error, then update *)
(* books.current_page, throw on its error, then loadReadingStreak(),       *)
(* loadCurrentBook(), setPagesRead(0); the catch only logs.                *)
(***************************************************************************)
RPStart(t, v) ==
    /\ t = "rp"
    /\ StartCall(t, v, "pending", "none")

RPUpsert(t, netOk) ==
    /\ t = "rp"
    /\ pc[t] = "busy"
    /\ call[t].progress = "pending"
    /\ LET c == call[t]
           res == IF netOk THEN UpsertDaily(daily_reading, DailyRow(c))
                           ELSE NetworkError(daily_reading)
       IN /\ daily_reading' = res.table
          /\ IF res.error = "ok"
             THEN /\ call' = [call EXCEPT ![t].progress = "ok", ![t].update = "pending"]
                  /\ pc' = pc
             ELSE /\ call' = [call EXCEPT ![t] = Settled(c, res.error, c.update)]
                  /\ pc' = [pc EXCEPT ![t] = "idle"]
    /\ UNCHANGED <<books, now, currentBook, pagesRead, reload>>
    /\ UNCHANGED <<logged, nCalls, firstPast>>
    /\ UNCHANGED streakVars
    /\ UNCHANGED pureVars

RPUpdate(t, netOk) ==
    /\ t = "rp"
    /\ pc[t] = "busy"
    /\ call[t].update = "pending"
    /\ LET c == call[t]
       IN IF netOk
          THEN /\ books' = UpdateCurrentPage(c)
               /\ call' = [call EXCEPT ![t] = Settled(c, c.progress, "ok")]
               /\ pagesRead' = [pagesRead EXCEPT ![t] = 0]
               /\ reload' = [reload EXCEPT ![t] = TRUE]
               /\ logged' = Logged(c)
          ELSE /\ call' = [call EXCEPT ![t] = Settled(c, c.progress, "network")]
               /\ UNCHANGED <<books, pagesRead, reload, logged>>
    /\ pc' = [pc EXCEPT ![t] = "idle"]
    /\ UNCHANGED <<daily_reading, now, currentBook>>
    /\ UNCHANGED <<nCalls, firstPast>>
    /\ UNCHANGED streakVars
    /\ UNCHANGED pureVars

(***************************************************************************)
(* ReadingDashboard.updateProgress: Promise.all of the upsert and the      *)
(* update, both sent at once and neither result read; once both have       *)
(* settled: setUpdateSuccess(true), setPagesRead(0) and                    *)
(* loadDashboardData().  Neither request throws, so the catch with its     *)
(* setError is never entered.                                              *)
(***************************************************************************)
DashStart(t, v) ==
    /\ t = "dash"
    /\ StartCall(t, v, "pending", "pending")

\* what follows the await Promise.all, once the other request has settled too
DashSettled(t, progress, update) ==
    IF progress # "pending" /\ update # "pending"
    THEN /\ call' = [call EXCEPT ![t] = Settled(call[t], progress, update)]
         /\ pc' = [pc EXCEPT ![t] = "idle"]
         /\ updateSuccess' = TRUE
         /\ pagesRead' = [pagesRead EXCEPT ![t] = 0]
         /\ reload' = [reload EXCEPT ![t] = TRUE]
    ELSE /\ call' = [call EXCEPT ![t].progress = progress, ![t].update = update]
         /\ UNCHANGED <<pc, pagesRead, reload, updateSuccess>>

DashUpsert(t, netOk) ==
    /\ t = "dash"
    /\ pc[t] = "busy"
    /\ call[t].progress = "pending"
    /\ LET c == call[t]
           res == IF netOk THEN UpsertDaily(daily_reading, DailyRow(c))
                           ELSE NetworkError(daily_reading)
       IN /\ daily_reading' = res.table
          /\ DashSettled(t, res.error, c.update)
    /\ UNCHANGED <<books, now, currentBook>>
    /\ UNCHANGED <<logged, nCalls, firstPast>>
    /\ UNCHANGED streakVars
    /\ UNCHANGED <<seriesVars, searchVars, detectVars, statsVars>>
    /\ UNCHANGED <<dashError, deleteVars, addVars>>

DashUpdate(t, netOk) ==
    /\ t = "dash"
    /\ pc[t] = "busy"
    /\ call[t].update = "pending"
    /\ LET c == call[t]
           update == IF netOk THEN "ok" ELSE "network"
       IN /\ books' = IF netOk THEN UpdateCurrentPage(c) ELSE books
          /\ logged' = IF netOk THEN Logged(c) ELSE logged
          /\ DashSettled(t, c.progress, update)
    /\ UNCHANGED <<daily_reading, now, currentBook>>
    /\ UNCHANGED <<nCalls, firstPast>>
    /\ UNCHANGED streakVars
    /\ UNCHANGED <<seriesVars, searchVars, detectVars, statsVars>>
    /\ UNCHANGED <<dashError, deleteVars, addVars>>

\* setTimeout(() => setUpdateSuccess(false), 3000)
SuccessTimeout ==
    /\ updateSuccess
    /\ updateSuccess' = FALSE
    /\ UNCHANGED <<storageVars, clientVars, historyVars, streakVars>>
    /\ UNCHANGED <<seriesVars, searchVars, detectVars, statsVars>>
    /\ UNCHANGED <<dashError, deleteVars, addVars>>

\* midnight
AdvanceClock(limit) ==
    /\ now < limit
    /\ now' = now + 1
    /\ UNCHANGED <<books, daily_reading>>
    /\ UNCHANGED clientVars
    /\ UNCHANGED historyVars
    /\ UNCHANGED streakVars
    /\ UNCHANGED pureVars

\* a day after the run's last call shows nothing new
NextDay == nCalls < MaxCalls /\ AdvanceClock(MaxDay)

(***************************************************************************)
(* The progress model: one book being read, created by an add-book form    *)
(* (current_page 0, total_pages typed in or left empty), and two open      *)
(* tabs, one on each component, both mounted and holding the book.         *)
(***************************************************************************)
ClientInit ==
    /\ currentBook = [t \in Tabs |-> NoCopy]
    /\ pagesRead = [t \in Tabs |-> 0]
    /\ reload = [t \in Tabs |-> FALSE]
    /\ pc = [t \in Tabs |-> "idle"]
    /\ call = [t \in Tabs |-> NoCall]

\* a component that has mounted and run its first loadCurrentBook
Mounted(b) == [id |-> b, current_page |-> books[b].current_page,
               total_pages |-> books[b].total_pages]

HistoryInit ==
    /\ logged = [b \in BookIds |-> 0]
    /\ nCalls = 0

StreakIdle ==
    /\ sortedDates = << >>
    /\ idx = 0
    /\ tempStreak = 0
    /\ longestStreak = 0
    /\ currentStreak = 0
    /\ spc = "idle"

\* SeriesProgress before its effect has run
SeriesIdle ==
    /\ seriesBooks = {}
    /\ items = << >>
    /\ uniqueBooks = << >>
    /\ suggestions = << >>
    /\ otherBooksInSeries = << >>
    /\ fpc = "idle"

\* search-series before a request
SearchIdle ==
    /\ seriesResults = << >>
    /\ searchStatus = 0

\* a SeriesInfo with every optional field undefined
NoSeriesInfo ==
    [isPartOfSeries |-> FALSE, seriesName |-> << >>, seriesOrder |-> Null,
     totalBooks |-> Null, confidence |-> 0]

NoResponse == [status |-> 0, body |-> NoSeriesInfo]

\* detectSeries before a call
DetectIdle ==
    /\ bookInfo = [title |-> << >>]
    /\ detectResponse = NoResponse
    /\ detectResult = NoSeriesInfo
    /\ aiError = "none"
    /\ dpc = "idle"

NoSettings == [exists |-> FALSE, reading_goal |-> 0]

NoUserData == [books |-> << >>, readingProgress |-> {}, userSettings |-> NoSettings]

\* the dashboard's stats before loadStats has set them
NoStats == [totalBooks |-> 0, booksThisYear |-> 0, booksLastYear |-> 0,
            averageBooksPerMonth |-> 0, completionRate |-> 0, favoriteGenres |-> << >>,
            currentStreak |-> 0, monthlyStats |-> << >>, readingGoalProgress |-> 0,
            totalPagesRead |-> 0, averagePagesPerDay |-> 0]

StatsIdle ==
    /\ userData = NoUserData
    /\ stats = << >>
    /\ dashStats = NoStats
    /\ loading = TRUE
    /\ readingGoals = << >>
    /\ gpc = "idle"

\* the dashboard before any updateProgress
DashIdle ==
    /\ updateSuccess = FALSE
    /\ dashError = "null"

\* SeriesProgress with its delete dialog closed
DeleteIdle ==
    /\ deleteDialog = "none"
    /\ delpc = "idle"
    /\ toast = "none"
    /\ deletedBooks = {}

\* no add-series request, and no book of the series
AddIdle ==
    /\ shelf = [title \in SeriesTitles |-> 0]
    /\ addReq = [p \in AddRequests |-> NoRequest]

OtherIdle == DashIdle /\ DeleteIdle /\ AddIdle

PureIdle == SeriesIdle /\ SearchIdle /\ DetectIdle /\ StatsIdle /\ OtherIdle

InitProgress ==
    /\ \E total \in {Null} \cup (1 .. MaxTotal) :
          books = [b \in BookIds |->
                      IF b = "b1"
                      THEN [NoBook EXCEPT !.status = "current", !.total_pages = total]
                      ELSE NoBook]
    /\ daily_reading = {}
    /\ now = 1
    /\ currentBook = [t \in Tabs |-> Mounted("b1")]
    /\ pagesRead = [t \in Tabs |-> 0]
    /\ reload = [t \in Tabs |-> FALSE]
    /\ pc = [t \in Tabs |-> "idle"]
    /\ call = [t \in Tabs |-> NoCall]
    /\ HistoryInit
    /\ firstPast = [b \in BookIds |-> Null]
    /\ StreakIdle
    /\ PureIdle

NextProgress ==
    \/ \E t \in Tabs, g \in {Null, GooglePages}, netOk \in BOOLEAN : LoadCurrentBook(t, g, netOk)
    \/ \E t \in Tabs, v \in PagesInputs : RPStart(t, v)
    \/ \E t \in Tabs, netOk \in BOOLEAN : RPUpsert(t, netOk)
    \/ \E t \in Tabs, netOk \in BOOLEAN : RPUpdate(t, netOk)
    \/ \E t \in Tabs, v \in PagesInputs : DashStart(t, v)
    \/ \E t \in Tabs, netOk \in BOOLEAN : DashUpsert(t, netOk)
    \/ \E t \in Tabs, netOk \in BOOLEAN : DashUpdate(t, netOk)
    \/ NextDay

SpecProgress == InitProgress /\ [][NextProgress]_vars

(***************************************************************************)
(* The dashboard model: the dashboard tab alone, with the timer that hides *)
(* its success message.                                                    *)
(***************************************************************************)
NextDash ==
    \/ \E t \in Tabs, g \in {Null, GooglePages}, netOk \in BOOLEAN : LoadCurrentBook(t, g, netOk)
    \/ \E t \in Tabs, v \in PagesInputs : DashStart(t, v)
    \/ \E t \in Tabs, netOk \in BOOLEAN : DashUpsert(t, netOk)
    \/ \E t \in Tabs, netOk \in BOOLEAN : DashUpdate(t, netOk)
    \/ SuccessTimeout
    \/ NextDay

SpecDash == InitProgress /\ [][NextDash]_vars

(***************************************************************************)
(* BookShelf.updateBookStatus: updateData is { status: newStatus }, plus   *)
(* date_completed = now when newStatus is 'past'; the update writes the    *)
(* columns of updateData and no other.                                     *)
(***************************************************************************)
GetAvailableActions(currentStatus) ==
    CASE currentStatus = "planned" -> {"current", "past"}
      [] currentStatus = "current" -> {"planned", "past"}
      [] currentStatus = "past" -> {"planned", "current"}
      [] OTHER -> {}

UpdatedRowKeepDate(row, newStatus, t) ==
    IF newStatus = "past" /\ row.date_completed = Null
    THEN [row EXCEPT !.status = newStatus, !.date_completed = t]
    ELSE [row EXCEPT !.status = newStatus]

UpdatedRowClearDate(row, newStatus, t) ==
    IF newStatus = "past"
    THEN [row EXCEPT !.status = newStatus, !.date_completed = t]
    ELSE [row EXCEPT !.status = newStatus, !.date_completed = Null]

UpdatedRow(row, newStatus, t) ==
    IF newStatus = "past"
    THEN [row EXCEPT !.status = newStatus, !.date_completed = t]
    ELSE [row EXCEPT !.status = newStatus]

\* the history of a book that takes status st at time t
FirstPast(b, st, t) ==
    IF st = "past" /\ firstPast[b] = Null
    THEN [firstPast EXCEPT ![b] = t]
    ELSE firstPast

UpdateBookStatus(b, newStatus) ==
    /\ books[b].status # "absent"
    /\ newStatus \in GetAvailableActions(books[b].status)
    /\ books' = [books EXCEPT ![b] = UpdatedRow(books[b], newStatus, now)]
    /\ firstPast' = FirstPast(b, newStatus, now)
    /\ UNCHANGED <<daily_reading, now, logged, nCalls>>
    /\ UNCHANGED clientVars
    /\ UNCHANGED streakVars
    /\ UNCHANGED pureVars

(***************************************************************************)
(* The rows the add-book paths insert.                                     *)
(***************************************************************************)
DateCompletedNever(st, t) == Null

\* date_completed: status === 'past' ? new Date().toISOString() : null
DateCompletedAtInsert(st, t) == IF st = "past" THEN t ELSE Null

Insert(rows) ==
    /\ books' = [b \in BookIds |-> IF b \in DOMAIN rows THEN rows[b] ELSE books[b]]
    /\ firstPast' = [b \in BookIds |->
                        IF b \in DOMAIN rows /\ rows[b].status = "past" THEN now
                        ELSE firstPast[b]]
    /\ UNCHANGED <<daily_reading, now, logged, nCalls>>
    /\ UNCHANGED clientVars
    /\ UNCHANGED streakVars
    /\ UNCHANGED pureVars

\* AddBookForm.handleSubmit
AddBook(b, st, total) ==
    /\ books[b].status = "absent"
    /\ Insert(b :> [status |-> st, date_completed |-> DateCompletedAtInsert(st, now),
                    current_page |-> 0, total_pages |-> total,
                    is_part_of_series |-> FALSE, series_name |-> "null"])

\* the series page's AddBookForm.handleSubmit
AddSeriesBook(b, st, total, isPartOfSeries, seriesName) ==
    /\ books[b].status = "absent"
    /\ Insert(b :> [status |-> st, date_completed |-> DateCompletedAtInsert(st, now),
                    current_page |-> 0, total_pages |-> total,
                    is_part_of_series |-> isPartOfSeries,
                    series_name |-> IF isPartOfSeries THEN seriesName ELSE "null"])

\* POST /api/add-series: one insert of every book of the series not yet owned
AddSeries(new, defaultStatus, pageCount) ==
    /\ new # {}
    /\ \A b \in new : books[b].status = "absent"
    /\ Insert([b \in new |->
                  [status |-> defaultStatus,
                   date_completed |-> DateCompletedAtInsert(defaultStatus, now),
                   current_page |-> 0, total_pages |-> pageCount,
                   is_part_of_series |-> TRUE, series_name |-> "S"]])

Tick == AdvanceClock(MaxTime)

(***************************************************************************)
(* booksThisYear, as each of its three computations has it.                *)
(***************************************************************************)
\* new Date(timestamp).getFullYear()
YearOf(t) == (t - 1) \div DaysPerYear

Owned(rows) == {b \in BookIds : rows[b].status # "absent"}

\* calculateReadingStatistics, over all the user's books
BooksThisYearAnalysis(rows, currentYear) ==
    Cardinality({b \in Owned(rows) :
                    rows[b].date_completed # Null
                    /\ YearOf(rows[b].date_completed) = currentYear})

\* the dashboard's loadStats: completedBooks, then the year filter
BooksThisYearDashboard(rows, currentYear) ==
    LET completedBooks == {b \in Owned(rows) :
                              rows[b].status = "past" /\ rows[b].date_completed # Null}
    IN Cardinality({b \in completedBooks :
                       rows[b].date_completed # Null
                       /\ YearOf(rows[b].date_completed) = currentYear})

\* the recommendations page's fetchReadingGoals: .eq('status', 'past'), then the filter
BooksThisYearRecommendations(rows, currentYear) ==
    LET fetched == {b \in Owned(rows) : rows[b].status = "past"}
    IN Cardinality({b \in fetched :
                       rows[b].date_completed # Null
                       /\ YearOf(rows[b].date_completed) = currentYear})

(***************************************************************************)
(* The status model: an empty library, books added through the forms and   *)
(* the add-series route, their status changed on the shelves.              *)
(***************************************************************************)
InitStatus ==
    /\ books = [b \in BookIds |-> NoBook]
    /\ daily_reading = {}
    /\ now = 1
    /\ ClientInit
    /\ HistoryInit
    /\ firstPast = [b \in BookIds |-> Null]
    /\ StreakIdle
    /\ PureIdle

NextStatus ==
    \/ \E b \in BookIds, st \in Statuses, total \in {Null, MaxTotal} : AddBook(b, st, total)
    \/ \E b \in BookIds, st \in Statuses, total \in {Null, MaxTotal},
          isPartOfSeries \in BOOLEAN, seriesName \in SeriesNames :
             AddSeriesBook(b, st, total, isPartOfSeries, seriesName)
    \/ \E new \in SUBSET BookIds, st \in Statuses, pageCount \in {Null, MaxTotal} :
          AddSeries(new, st, pageCount)
    \/ \E b \in BookIds, newStatus \in Statuses : UpdateBookStatus(b, newStatus)
    \/ Tick

SpecStatus == InitStatus /\ [][NextStatus]_vars

(***************************************************************************)
(* The reading analysis' streaks.  calculateReadingStatistics hands        *)
(* calculateStreaks the date of every daily_reading row, latest first;     *)
(* calculateStreaks walks the neighbouring pairs.                          *)
(***************************************************************************)
RECURSIVE Repeat(_, _)
Repeat(x, n) == IF n = 0 THEN << >> ELSE <<x>> \o Repeat(x, n - 1)

\* readingProgress.map(r => new Date(r.date)).sort((a, b) => b - a), dates up to d
RECURSIVE SortedDates(_, _)
SortedDates(readingProgress, d) ==
    IF d = 0 THEN << >>
    ELSE Repeat(d, Cardinality({r \in readingProgress : r.date = d}))
         \o SortedDates(readingProgress, d - 1)

\* Math.abs(a.getTime() - b.getTime()) / (1000 * 60 * 60 * 24)
DiffDays(a, b) == Abs(a - b)

\* the call, up to the loop
CalculateStreaks ==
    /\ spc = "idle"
    /\ sortedDates' = SortedDates(daily_reading, MaxDate)
    /\ IF daily_reading = {}
       THEN /\ longestStreak' = 0
            /\ currentStreak' = 0
            /\ tempStreak' = 0
            /\ idx' = 0
            /\ spc' = "done"
       ELSE /\ longestStreak' = 1
            /\ currentStreak' = 1
            /\ tempStreak' = 1
            /\ idx' = 1
            /\ spc' = "loop"
    /\ UNCHANGED storageVars
    /\ UNCHANGED clientVars
    /\ UNCHANGED historyVars
    /\ UNCHANGED pureVars

\* one turn of the loop: sortedDates[i-1] is the model's sortedDates[idx]
StreakStep ==
    /\ spc = "loop"
    /\ idx < Len(sortedDates)
    /\ IF DiffDays(sortedDates[idx], sortedDates[idx + 1]) <= 1
       THEN /\ tempStreak' = tempStreak + 1
            /\ currentStreak' = IF idx = 1 THEN tempStreak + 1 ELSE currentStreak
            /\ longestStreak' = longestStreak
       ELSE /\ longestStreak' = Max(longestStreak, tempStreak)
            /\ tempStreak' = 1
            /\ currentStreak' = IF idx = 1 THEN 1 ELSE currentStreak
    /\ idx' = idx + 1
    /\ UNCHANGED <<sortedDates, spc>>
    /\ UNCHANGED storageVars
    /\ UNCHANGED clientVars
    /\ UNCHANGED historyVars
    /\ UNCHANGED pureVars

\* after the loop
StreakReturn ==
    /\ spc = "loop"
    /\ idx >= Len(sortedDates)
    /\ longestStreak' = Max(longestStreak, tempStreak)
    /\ spc' = "done"
    /\ UNCHANGED <<sortedDates, idx, tempStreak, currentStreak>>
    /\ UNCHANGED storageVars
    /\ UNCHANGED clientVars
    /\ UNCHANGED historyVars
    /\ UNCHANGED pureVars

\* the loop shared by the dashboard's calculateStreak and loadReadingStreak:
\* entries latest first, counted while each is at most a day before the last
RECURSIVE StreakFrom(_, _, _)
StreakFrom(sortedProgress, i, lastDate) ==
    IF i > Len(sortedProgress) THEN 0
    ELSE IF lastDate - sortedProgress[i] <= 1
         THEN 1 + StreakFrom(sortedProgress, i + 1, sortedProgress[i])
         ELSE 0

\* the dashboard's calculateStreak(dailyProgress), today being the day of the call
CalculateStreak(dailyProgress, today) ==
    IF dailyProgress = {} THEN 0
    ELSE LET sortedProgress == SortedDates(dailyProgress, MaxDate)
             streak == StreakFrom(sortedProgress, 1, today)
         IN IF today - sortedProgress[1] > 1 THEN 0 ELSE streak

\* ReadingProgress.loadReadingStreak's streak over the rows ordered by date, latest first
LoadReadingStreak(progress, today) ==
    StreakFrom(SortedDates(progress, MaxDate), 1, today)

(***************************************************************************)
(* The streak model: any daily_reading table (one row per book and day),   *)
(* read on its last day.                                                   *)
(***************************************************************************)
InitStreak ==
    /\ books = [b \in BookIds |-> [NoBook EXCEPT !.status = "planned"]]
    /\ \E logs \in SUBSET (BookIds \X (1 .. MaxDate)) :
          daily_reading = {[book_id |-> l[1], date |-> l[2], pages_read |-> 1] : l \in logs}
    /\ now = MaxDate
    /\ ClientInit
    /\ HistoryInit
    /\ firstPast = [b \in BookIds |-> Null]
    /\ StreakIdle
    /\ PureIdle

NextStreak ==
    \/ CalculateStreaks
    \/ StreakStep
    \/ StreakReturn

SpecStreak == InitStreak /\ [][NextStreak]_vars

(***************************************************************************)
(* The 'Others in Series' suggestions: SeriesProgress.loadSeriesBooks asks *)
(* /api/find-series-books for the other titles of the series and drops the *)
(* titles the user has.  Strings are sequences of characters.              *)
(***************************************************************************)
\* String.prototype.toLowerCase
UpperCase == <<"A", "B", "C", "D", "E", "F", "G", "H", "I", "J", "K", "L", "M", "N", "O", "P", "Q", "R", "S", "T", "U", "V", "W", "X", "Y", "Z">>
LowerCase == <<"a", "b", "c", "d", "e", "f", "g", "h", "i", "j", "k", "l", "m", "n", "o", "p", "q", "r", "s", "t", "u", "v", "w", "x", "y", "z">>
LowerChar(c) ==
    IF \E i \in 1 .. Len(UpperCase) : UpperCase[i] = c
    THEN LowerCase[CHOOSE i \in 1 .. Len(UpperCase) : UpperCase[i] = c]
    ELSE c

ToLowerCase(str) == [i \in 1 .. Len(str) |-> LowerChar(str[i])]

\* String.prototype.includes
Includes(str, sub) ==
    \E i \in 0 .. (Len(str) - Len(sub)) : SubSeq(str, i + 1, i + Len(sub)) = sub

\* str.split(' ')[0]
FirstWord(str) ==
    LET spaces == {i \in 1 .. Len(str) : str[i] = " "}
    IN IF spaces = {} THEN str
       ELSE SubSeq(str, 1, (CHOOSE i \in spaces : \A j \in spaces : i <= j) - 1)

\* the collation order of String.prototype.localeCompare: characters first
\* (space, digits, letters; case ignored), then lower case before upper case
CharOrder == <<" ", "2", "3", "a", "b", "l", "o", "p", "s", "t", "u", "z">>

Weight(c, level) ==
    IF level = 1
    THEN CHOOSE i \in 1 .. Len(CharOrder) : CharOrder[i] = LowerChar(c)
    ELSE IF c = LowerChar(c) THEN 0 ELSE 1

RECURSIVE CompareAt(_, _, _, _)
CompareAt(a, b, i, level) ==
    IF i > Len(a) /\ i > Len(b) THEN 0
    ELSE IF i > Len(a) THEN 0 - 1
    ELSE IF i > Len(b) THEN 1
    ELSE IF Weight(a[i], level) < Weight(b[i], level) THEN 0 - 1
    ELSE IF Weight(a[i], level) > Weight(b[i], level) THEN 1
    ELSE CompareAt(a, b, i + 1, level)

LocaleCompare(a, b) ==
    IF CompareAt(a, b, 1, 1) # 0 THEN CompareAt(a, b, 1, 1) ELSE CompareAt(a, b, 1, 2)

\* the highest-order book of the user's series: series_name and author
SeriesName == <<"O", "z">>
CurrentAuthor == <<"B">>

\* titles of the model: the series' first book, the same in capitals, two
\* longer titles that contain it, an unrelated title and a companion atlas
TitleOz == <<"O", "z">>
TitleOZ == <<"O", "Z">>
TitleOz2 == <<"O", "z", " ", "2">>
TitleOz3 == <<"O", "z", " ", "3">>
TitleUp == <<"U", "p">>
TitleOzAtlas == <<"O", "z", " ", "a", "t", "l", "a", "s">>
Titles == {TitleOz, TitleOZ, TitleOz2, TitleOz3, TitleUp, TitleOzAtlas}
OwnedTitles == {TitleOz, TitleOz2}
Authors == {<<"b">>, <<"x">>}

\* item.volumeInfo of a Google Books answer (publishedDate Null: none given)
Candidates ==
    [title : Titles, author : Authors, publishedDate : {Null} \cup (1 .. MaxPublished)]

ExcludePatterns ==
    {<<"g", "u", "i", "d", "e">>,
     <<"c", "o", "m", "p", "a", "n", "i", "o", "n">>,
     <<"m", "a", "g", "i", "c", "a", "l", " ", "y", "e", "a", "r">>,
     <<"c", "o", "o", "k", "b", "o", "o", "k">>,
     <<"j", "o", "u", "r", "n", "a", "l">>,
     <<"d", "i", "a", "r", "y">>,
     <<"h", "a", "n", "d", "b", "o", "o", "k">>,
     <<"e", "n", "c", "y", "c", "l", "o", "p", "e", "d", "i", "a">>,
     <<"l", "e", "x", "i", "c", "o", "n">>,
     <<"a", "t", "l", "a", "s">>,
     <<"i", "l", "l", "u", "s", "t", "r", "a", "t", "e", "d">>,
     <<"s", "c", "r", "e", "e", "n", "p", "l", "a", "y">>,
     <<"s", "c", "r", "i", "p", "t">>,
     <<"t", "a", "l", "e", "s", " ", "o", "f">>,
     <<"f", "a", "n", "t", "a", "s", "t", "i", "c", " ", "b", "e", "a", "s", "t", "s">>,
     <<"q", "u", "i", "d", "d", "i", "t", "c", "h">>,
     <<"b", "e", "e", "d", "l", "e">>,
     <<"c", "u", "r", "s", "e", "d", " ", "c", "h", "i", "l", "d">>,
     <<"s", "h", "o", "r", "t", " ", "s", "t", "o", "r", "i", "e", "s">>,
     <<"c", "o", "l", "l", "e", "c", "t", "i", "o", "n">>,
     <<"a", "n", "t", "h", "o", "l", "o", "g", "y">>,
     <<"t", "r", "e", "a", "s", "u", "r", "y">>,
     <<"a", "r", "c", "h", "i", "v", "e">>}

HarryPotter == <<"h", "a", "r", "r", "y", " ", "p", "o", "t", "t", "e", "r">>
LordOfTheRings == <<"l", "o", "r", "d", " ", "o", "f", " ", "t", "h", "e", " ", "r", "i", "n", "g", "s">>
Ring == <<"r", "i", "n", "g">>
Chronicles == <<"c", "h", "r", "o", "n", "i", "c", "l", "e", "s">>

\* the test a volume passes to enter bookDetails
IsSeriesVolume(book) ==
    LET title == ToLowerCase(book.title)
        seriesName == ToLowerCase(SeriesName)
        author == ToLowerCase(book.author)
        currentAuthor == ToLowerCase(CurrentAuthor)
        isExcluded == \E pattern \in ExcludePatterns : Includes(title, pattern)
    IN /\ ~isExcluded
       /\ author = currentAuthor
       /\ \/ Includes(title, seriesName)
          \/ Includes(title, FirstWord(seriesName))
          \/ (Includes(seriesName, HarryPotter) /\ Includes(title, HarryPotter))
          \/ (Includes(seriesName, LordOfTheRings) /\ Includes(title, Ring))
          \/ (Includes(seriesName, Chronicles) /\ Includes(title, Chronicles))

\* bookDetails: the volumes that pass, one per bookKey `${title}-${author}`
RECURSIVE BookDetails(_)
BookDetails(vols) ==
    IF vols = << >> THEN << >>
    ELSE LET before == BookDetails(SubSeq(vols, 1, Len(vols) - 1))
             book == vols[Len(vols)]
             seen == \E k \in 1 .. Len(before) :
                        before[k].title = book.title /\ before[k].author = book.author
         IN IF IsSeriesVolume(book) /\ ~seen THEN Append(before, book) ELSE before

\* uniqueBooks: a book is dropped when an earlier entry of bookDetails has the
\* same title, or a title that contains or is contained in it (case ignored)
UniqueBooks(bookDetails) ==
    LET isDuplicate(index) ==
           \E k \in 1 .. (index - 1) :
              LET prev == ToLowerCase(bookDetails[k].title)
                  this == ToLowerCase(bookDetails[index].title)
              IN prev = this \/ Includes(prev, this) \/ Includes(this, prev)
        kept == {index \in 1 .. Len(bookDetails) : ~isDuplicate(index)}
        nth(i) == CHOOSE index \in kept :
                     Cardinality({k \in kept : k < index}) = i - 1
    IN [i \in 1 .. Cardinality(kept) |-> bookDetails[nth(i)]]

\* the comparator handed to uniqueBooks.sort
CompareBooks(a, b) ==
    IF a.publishedDate # Null /\ b.publishedDate # Null
    THEN a.publishedDate - b.publishedDate
    ELSE LocaleCompare(a.title, b.title)

\* Array.prototype.sort: the stable order of the comparator where it orders
\* the elements consistently; any order where it does not
SortOutcomes(arr) ==
    LET n == Len(arr)
        perms == {q \in [1 .. n -> 1 .. n] : \A i, j \in 1 .. n : q[i] = q[j] => i = j}
        stable == {q \in perms :
                     \A i, j \in 1 .. n :
                        i < j => \/ CompareBooks(arr[q[i]], arr[q[j]]) < 0
                                 \/ /\ CompareBooks(arr[q[i]], arr[q[j]]) = 0
                                    /\ q[i] < q[j]}
    IN {[i \in 1 .. n |-> arr[q[i]]] : q \in IF stable # {} THEN stable ELSE perms}

\* uniqueBooks.slice(0, 5).map(book => book.title)
SliceCount == 5
SuggestionsOf(sorted) ==
    [i \in 1 .. Min(Len(sorted), SliceCount) |-> sorted[i].title]

\* loadSeriesBooks up to the request: nothing is asked for a series without books
LoadSeriesBooks ==
    /\ fpc = "idle"
    /\ fpc' = IF seriesBooks # {} THEN "asked" ELSE "done"
    /\ UNCHANGED <<seriesBooks, items, uniqueBooks, suggestions, otherBooksInSeries>>
    /\ UNCHANGED storageVars
    /\ UNCHANGED clientVars
    /\ UNCHANGED historyVars
    /\ UNCHANGED streakVars
    /\ UNCHANGED <<searchVars, detectVars, statsVars, otherVars>>

\* POST /api/find-series-books; a request that fails is answered with []
FindSeriesBooks(ok) ==
    /\ fpc = "asked"
    /\ IF ok
       THEN \E sorted \in SortOutcomes(UniqueBooks(BookDetails(items))) :
               /\ uniqueBooks' = sorted
               /\ suggestions' = SuggestionsOf(sorted)
       ELSE /\ uniqueBooks' = << >>
            /\ suggestions' = << >>
    /\ fpc' = "answered"
    /\ UNCHANGED <<seriesBooks, items, otherBooksInSeries>>
    /\ UNCHANGED storageVars
    /\ UNCHANGED clientVars
    /\ UNCHANGED historyVars
    /\ UNCHANGED streakVars
    /\ UNCHANGED <<searchVars, detectVars, statsVars, otherVars>>

\* loadSeriesBooks after the answer: the titles the user has are dropped
SetOtherBooksInSeries ==
    /\ fpc = "answered"
    /\ LET userBookTitles == {ToLowerCase(title) : title \in seriesBooks}
           isNew(bookTitle) == ToLowerCase(bookTitle) \notin userBookTitles
       IN otherBooksInSeries' = SelectSeq(suggestions, isNew)
    /\ fpc' = "done"
    /\ UNCHANGED <<seriesBooks, items, uniqueBooks, suggestions>>
    /\ UNCHANGED storageVars
    /\ UNCHANGED clientVars
    /\ UNCHANGED historyVars
    /\ UNCHANGED streakVars
    /\ UNCHANGED <<searchVars, detectVars, statsVars, otherVars>>

\* the series model: any books of the user in the series, any search answer
InitSeries ==
    /\ books = [b \in BookIds |-> NoBook]
    /\ daily_reading = {}
    /\ now = 1
    /\ ClientInit
    /\ HistoryInit
    /\ firstPast = [b \in BookIds |-> Null]
    /\ StreakIdle
    /\ seriesBooks \in SUBSET OwnedTitles
    /\ items \in UNION {[1 .. n -> Candidates] : n \in 0 .. MaxItems}
    /\ uniqueBooks = << >>
    /\ suggestions = << >>
    /\ otherBooksInSeries = << >>
    /\ fpc = "idle"
    /\ SearchIdle
    /\ DetectIdle
    /\ StatsIdle
    /\ OtherIdle

NextSeries ==
    \/ LoadSeriesBooks
    \/ \E ok \in BOOLEAN : FindSeriesBooks(ok)
    \/ SetOtherBooksInSeries

SpecSeries == InitSeries /\ [][NextSeries]_vars

(***************************************************************************)
(* GET /api/search-series: the volumes of a Google Books answer are        *)
(* grouped into series by extractSeriesInfo, and the groups with at least  *)
(* two different titles are returned.                                      *)
(***************************************************************************)
IsSpace(c) == c = " "
Digits == <<"0", "1", "2", "3", "4", "5", "6", "7", "8", "9">>
IsDigit(c) == \E i \in 1 .. 10 : Digits[i] = c
DigitValue(c) == (CHOOSE i \in 1 .. 10 : Digits[i] = c) - 1
\* \w
IsWord(c) == IsDigit(c) \/ c = "_" \/ \E i \in 1 .. 26 : LowerCase[i] = c \/ UpperCase[i] = c

\* the number of characters from pos on that are spaces / digits (a greedy \s* or \d+)
SpacesAt(str, pos) ==
    LET runs == {n \in 0 .. (Len(str) - pos + 1) : \A i \in pos .. (pos + n - 1) : IsSpace(str[i])}
    IN CHOOSE n \in runs : \A m \in runs : m <= n

DigitsAt(str, pos) ==
    LET runs == {n \in 0 .. (Len(str) - pos + 1) : \A i \in pos .. (pos + n - 1) : IsDigit(str[i])}
    IN CHOOSE n \in runs : \A m \in runs : m <= n

\* parseInt of a string of digits
RECURSIVE ParseInt(_)
ParseInt(str) ==
    IF str = << >> THEN 0
    ELSE 10 * ParseInt(SubSeq(str, 1, Len(str) - 1)) + DigitValue(str[Len(str)])

\* String.prototype.trim
Trim(str) ==
    LET solid == {i \in 1 .. Len(str) : ~IsSpace(str[i])}
    IN IF solid = {} THEN << >>
       ELSE SubSeq(str, CHOOSE i \in solid : \A j \in solid : i <= j,
                        CHOOSE i \in solid : \A j \in solid : i >= j)

\* a regular expression after its capture group: literals, \s+ or \s* (ws,
\* min 1 or 0) and \d+ (digits).  MatchEnd is the position after a match
\* that starts at pos, 0 if there is none; ci is the i flag.
RECURSIVE MatchEnd(_, _, _, _)
MatchEnd(str, pos, pat, ci) ==
    IF pat = << >> THEN pos
    ELSE LET e == Head(pat)
             piece == SubSeq(str, pos, pos + Len(e.s) - 1)
         IN CASE e.k = "lit" ->
                   IF /\ pos + Len(e.s) - 1 <= Len(str)
                      /\ (IF ci THEN ToLowerCase(piece) ELSE piece) = e.s
                   THEN MatchEnd(str, pos + Len(e.s), Tail(pat), ci)
                   ELSE 0
              [] e.k = "ws" ->
                   IF SpacesAt(str, pos) >= e.min
                   THEN MatchEnd(str, pos + SpacesAt(str, pos), Tail(pat), ci)
                   ELSE 0
              [] e.k = "digits" ->
                   IF DigitsAt(str, pos) >= 1
                   THEN MatchEnd(str, pos + DigitsAt(str, pos), Tail(pat), ci)
                   ELSE 0

\* the positions at which the pattern matches
MatchesAt(str, pat, ci) == {p \in 1 .. (Len(str) + 1) : MatchEnd(str, p, pat, ci) # 0}

\* match[1] of /^(.*?)pat/: the shortest prefix the pattern follows (<< >>: no match)
LazyPrefix(str, pat, ci) ==
    LET ps == MatchesAt(str, pat, ci)
    IN IF ps = {} THEN << >>
       ELSE SubSeq(str, 1, (CHOOSE p \in ps : \A q \in ps : p <= q) - 1)

\* patterns[0..6] of extractSeriesInfo, after the group (.*?)
NamePatterns ==
    <<<<[k |-> "ws", s |-> << >>, min |-> 1],
      [k |-> "lit", s |-> <<"a", "n", "d">>, min |-> 0],
      [k |-> "ws", s |-> << >>, min |-> 1],
      [k |-> "lit", s |-> <<"t", "h", "e">>, min |-> 0],
      [k |-> "ws", s |-> << >>, min |-> 1]>>,
      <<[k |-> "lit", s |-> <<":">>, min |-> 0],
      [k |-> "ws", s |-> << >>, min |-> 1]>>,
      <<[k |-> "lit", s |-> <<":">>, min |-> 0],
      [k |-> "ws", s |-> << >>, min |-> 0],
      [k |-> "lit", s |-> <<"b", "o", "o", "k">>, min |-> 0],
      [k |-> "ws", s |-> << >>, min |-> 0],
      [k |-> "digits", s |-> << >>, min |-> 1]>>,
      <<[k |-> "ws", s |-> << >>, min |-> 0],
      [k |-> "lit", s |-> <<"#">>, min |-> 0],
      [k |-> "ws", s |-> << >>, min |-> 0],
      [k |-> "digits", s |-> << >>, min |-> 1]>>,
      <<[k |-> "ws", s |-> << >>, min |-> 1],
      [k |-> "lit", s |-> <<"b", "o", "o", "k">>, min |-> 0],
      [k |-> "ws", s |-> << >>, min |-> 1],
      [k |-> "digits", s |-> << >>, min |-> 1]>>,
      <<[k |-> "ws", s |-> << >>, min |-> 0],
      [k |-> "lit", s |-> <<"(", "b", "o", "o", "k">>, min |-> 0],
      [k |-> "ws", s |-> << >>, min |-> 0],
      [k |-> "digits", s |-> << >>, min |-> 1],
      [k |-> "lit", s |-> <<")">>, min |-> 0]>>,
      <<[k |-> "ws", s |-> << >>, min |-> 1],
      [k |-> "lit", s |-> <<"v", "o", "l", "u", "m", "e">>, min |-> 0],
      [k |-> "ws", s |-> << >>, min |-> 1],
      [k |-> "digits", s |-> << >>, min |-> 1]>>>>

ColonSpace == <<[k |-> "lit", s |-> <<":">>, min |-> 0],
      [k |-> "ws", s |-> << >>, min |-> 1]>>
ChroniclesWord == <<[k |-> "lit", s |-> <<"c", "h", "r", "o", "n", "i", "c", "l", "e", "s">>, min |-> 0]>>

\* match[1] of /^(.*chronicles.*?):\s+/i: up to the first ": " after the last
\* "chronicles" that has one
ChroniclesPrefix(str) ==
    LET colons == MatchesAt(str, ColonSpace, TRUE)
        words == {c \in MatchesAt(str, ChroniclesWord, TRUE) :
                    \E p \in colons : p >= c + 10}
        last == CHOOSE c \in words : \A d \in words : d <= c
        after == {p \in colons : p >= last + 10}
    IN IF words = {} THEN << >>
       ELSE SubSeq(str, 1, (CHOOSE p \in after : \A q \in after : p <= q) - 1)

\* the first pattern, from i on, with a non-empty match[1], trimmed
RECURSIVE PatternName(_, _)
PatternName(title, i) ==
    IF i > Len(NamePatterns) THEN Trim(ChroniclesPrefix(title))
    ELSE IF LazyPrefix(title, NamePatterns[i], TRUE) # << >>
         THEN Trim(LazyPrefix(title, NamePatterns[i], TRUE))
         ELSE PatternName(title, i + 1)

KnownSeries ==
    <<<<"h", "a", "r", "r", "y", " ", "p", "o", "t", "t", "e", "r">>,
      <<"l", "o", "r", "d", " ", "o", "f", " ", "t", "h", "e", " ", "r", "i", "n", "g", "s">>,
      <<"c", "h", "r", "o", "n", "i", "c", "l", "e", "s", " ", "o", "f", " ", "n", "a", "r", "n", "i", "a">>,
      <<"h", "u", "n", "g", "e", "r", " ", "g", "a", "m", "e", "s">>,
      <<"t", "w", "i", "l", "i", "g", "h", "t">>,
      <<"d", "i", "v", "e", "r", "g", "e", "n", "t">>,
      <<"m", "a", "z", "e", " ", "r", "u", "n", "n", "e", "r">>,
      <<"f", "o", "u", "n", "d", "a", "t", "i", "o", "n">>,
      <<"d", "u", "n", "e">>,
      <<"g", "a", "m", "e", " ", "o", "f", " ", "t", "h", "r", "o", "n", "e", "s">>,
      <<"w", "h", "e", "e", "l", " ", "o", "f", " ", "t", "i", "m", "e">>,
      <<"m", "i", "s", "t", "b", "o", "r", "n">>,
      <<"s", "t", "o", "r", "m", "l", "i", "g", "h", "t", " ", "a", "r", "c", "h", "i", "v", "e">>>>

\* the first known series the lower-cased title contains (<< >>: none)
KnownName(cleanTitle) ==
    LET hits == {i \in 1 .. Len(KnownSeries) : Includes(cleanTitle, KnownSeries[i])}
    IN IF hits = {} THEN << >>
       ELSE KnownSeries[CHOOSE i \in hits : \A j \in hits : i <= j]

\* orderPatterns: what comes before and after the group (\d+), and the i flag
OrderPatterns ==
    <<[pre |-> <<[k |-> "lit", s |-> <<"b", "o", "o", "k">>, min |-> 0], [k |-> "ws", s |-> << >>, min |-> 0]>>, post |-> <<>>, ci |-> TRUE],
      [pre |-> <<[k |-> "lit", s |-> <<"#">>, min |-> 0]>>, post |-> <<>>, ci |-> FALSE],
      [pre |-> <<[k |-> "lit", s |-> <<"(", "b", "o", "o", "k">>, min |-> 0], [k |-> "ws", s |-> << >>, min |-> 0]>>, post |-> <<[k |-> "lit", s |-> <<")">>, min |-> 0]>>, ci |-> TRUE],
      [pre |-> <<[k |-> "lit", s |-> <<"v", "o", "l", "u", "m", "e">>, min |-> 0], [k |-> "ws", s |-> << >>, min |-> 0]>>, post |-> <<>>, ci |-> TRUE],
      [pre |-> <<[k |-> "lit", s |-> <<"p", "a", "r", "t">>, min |-> 0], [k |-> "ws", s |-> << >>, min |-> 0]>>, post |-> <<>>, ci |-> TRUE]>>

DigitsPattern == <<[k |-> "digits", s |-> << >>, min |-> 1]>>

\* match[1] of the first of the patterns, from i on, that matches (<< >>: none does)
RECURSIVE MatchedDigits(_, _, _)
MatchedDigits(title, patterns, i) ==
    IF i > Len(patterns) THEN << >>
    ELSE LET o == patterns[i]
             ps == MatchesAt(title, o.pre \o DigitsPattern \o o.post, o.ci)
             first == CHOOSE p \in ps : \A q \in ps : p <= q
             d == MatchEnd(title, first, o.pre, o.ci)
         IN IF ps = {} THEN MatchedDigits(title, patterns, i + 1)
            ELSE SubSeq(title, d, d + DigitsAt(title, d) - 1)

\* parseInt(match[1]) of the first order pattern, from i on, that matches (Null: none)
PatternOrder(title, i) ==
    IF MatchedDigits(title, OrderPatterns, i) = << >> THEN Null
    ELSE ParseInt(MatchedDigits(title, OrderPatterns, i))

HarryPotterName == <<"H", "a", "r", "r", "y", " ", "P", "o", "t", "t", "e", "r">>
LordOfTheRingsName == <<"T", "h", "e", " ", "L", "o", "r", "d", " ", "o", "f", " ", "t", "h", "e", " ", "R", "i", "n", "g", "s">>

\* extractSeriesInfo from the known-series lookup on: cleanTitle is the title
\* in lower case, matched the name the patterns gave, order their number
SeriesInfoFor(cleanTitle, matched, order) ==
    LET found == IF matched # << >> THEN matched ELSE KnownName(cleanTitle)
        isHarryPotter == found # << >> /\ Includes(ToLowerCase(found), HarryPotter)
        isRings == /\ found # << >>
                   /\ ~isHarryPotter
                   /\ Includes(ToLowerCase(found), LordOfTheRings)
    IN [seriesName |-> IF isHarryPotter THEN HarryPotterName
                       ELSE IF isRings THEN LordOfTheRingsName
                       ELSE found,
        order |-> IF isHarryPotter
                  THEN IF Includes(cleanTitle, <<"p", "h", "i", "l", "o", "s", "o", "p", "h", "e", "r">>) \/ Includes(cleanTitle, <<"s", "o", "r", "c", "e", "r", "e", "r">>) THEN 1
                       ELSE IF Includes(cleanTitle, <<"c", "h", "a", "m", "b", "e", "r">>) THEN 2
                       ELSE IF Includes(cleanTitle, <<"p", "r", "i", "s", "o", "n", "e", "r">>) THEN 3
                       ELSE IF Includes(cleanTitle, <<"g", "o", "b", "l", "e", "t">>) THEN 4
                       ELSE IF Includes(cleanTitle, <<"p", "h", "o", "e", "n", "i", "x">>) THEN 5
                       ELSE IF Includes(cleanTitle, <<"p", "r", "i", "n", "c", "e">>) THEN 6
                       ELSE IF Includes(cleanTitle, <<"h", "a", "l", "l", "o", "w", "s">>) THEN 7
                       ELSE order
                  ELSE IF isRings
                  THEN IF Includes(cleanTitle, <<"f", "e", "l", "l", "o", "w", "s", "h", "i", "p">>) THEN 1
                       ELSE IF Includes(cleanTitle, <<"t", "w", "o", " ", "t", "o", "w", "e", "r", "s">>) THEN 2
                       ELSE IF Includes(cleanTitle, <<"r", "e", "t", "u", "r", "n">>) THEN 3
                       ELSE order
                  ELSE order]

ExtractSeriesInfo(title) ==
    SeriesInfoFor(ToLowerCase(title), PatternName(title, 1), PatternOrder(title, 1))

\* the key of a volume's series in seriesMap: `${seriesInfo.seriesName}-${author}`
SeriesKey(book) == ExtractSeriesInfo(book.title).seriesName \o <<"-">> \o book.author

HasSeries(book) == ExtractSeriesInfo(book.title).seriesName # << >>

\* the keys of seriesMap, in the order of their insertion
RECURSIVE SeriesKeys(_)
SeriesKeys(vols) ==
    IF vols = << >> THEN << >>
    ELSE LET before == SeriesKeys(SubSeq(vols, 1, Len(vols) - 1))
             book == vols[Len(vols)]
         IN IF HasSeries(book) /\ \A k \in 1 .. Len(before) : before[k] # SeriesKey(book)
            THEN Append(before, SeriesKey(book))
            ELSE before

\* seriesMap.get(key).books after the forEach
RECURSIVE SeriesDataBooks(_, _)
SeriesDataBooks(vols, key) ==
    IF vols = << >> THEN << >>
    ELSE LET before == SeriesDataBooks(SubSeq(vols, 1, Len(vols) - 1), key)
             book == vols[Len(vols)]
             order == ExtractSeriesInfo(book.title).order
         IN IF HasSeries(book) /\ SeriesKey(book) = key
            THEN Append(before, [title |-> book.title, author |-> book.author,
                                 order |-> IF order # Null THEN order ELSE Len(before) + 1])
            ELSE before

\* Array.prototype.sort with a comparison of numbers, sortKeys[i] being the
\* number arr[i] is compared by: the stable order
StableSort(arr, sortKeys) ==
    LET n == Len(arr)
        q == CHOOSE f \in [1 .. n -> 1 .. n] :
                \A i, j \in 1 .. n :
                   i < j => \/ sortKeys[f[i]] < sortKeys[f[j]]
                            \/ sortKeys[f[i]] = sortKeys[f[j]] /\ f[i] < f[j]
    IN [i \in 1 .. n |-> arr[q[i]]]

BookOrder(book) == book.order

\* book.title.toLowerCase().replace(/[^\w\s]/g, '')
NormalizedTitle(title) ==
    LET keep(c) == IsWord(c) \/ IsSpace(c)
    IN SelectSeq(ToLowerCase(title), keep)

\* the last book of each normalized title
UniqueTitlesLast(sorted) ==
    SelectSeq(sorted,
              LAMBDA book :
                 book = CHOOSE other \in {sorted[k] : k \in 1 .. Len(sorted)} :
                           /\ NormalizedTitle(other.title) = NormalizedTitle(book.title)
                           /\ \A k, l \in 1 .. Len(sorted) :
                                 (sorted[k] = other /\ NormalizedTitle(sorted[l].title)
                                                         = NormalizedTitle(book.title))
                                    => l <= k)

\* uniqueBooks: the first book of each normalized title
RECURSIVE UniqueTitles(_)
UniqueTitles(sorted) ==
    IF sorted = << >> THEN << >>
    ELSE LET before == UniqueTitles(SubSeq(sorted, 1, Len(sorted) - 1))
             book == sorted[Len(sorted)]
         IN IF \A k \in 1 .. (Len(sorted) - 1) :
                  NormalizedTitle(sorted[k].title) # NormalizedTitle(book.title)
            THEN Append(before, book)
            ELSE before

\* the test a group passes to enter seriesResults
IsSeriesAny(uniqueTitles) == Len(uniqueTitles) >= 1
IsSeries(uniqueTitles) == Len(uniqueTitles) >= 2

\* key.split('-')[0]
SplitFirst(key) ==
    LET dashes == {i \in 1 .. Len(key) : key[i] = "-"}
    IN IF dashes = {} THEN key
       ELSE SubSeq(key, 1, (CHOOSE i \in dashes : \A j \in dashes : i <= j) - 1)

\* seriesData.books.sort((a, b) => a.order - b.order)
SortedByOrder(seriesBooksOf) ==
    StableSort(seriesBooksOf, [i \in 1 .. Len(seriesBooksOf) |-> BookOrder(seriesBooksOf[i])])

\* the author the group was created with
SeriesAuthor(seriesBooksOf) == seriesBooksOf[1].author

\* seriesResults.push(...) for the group of a key, if it passes
PushSeries(before, key, seriesBooksOf, uniqueTitles) ==
    IF IsSeries(uniqueTitles)
    THEN Append(before, [seriesName |-> SplitFirst(key),
                         totalBooks |-> Max(0, Len(uniqueTitles)),
                         author |-> SeriesAuthor(seriesBooksOf),
                         books |-> uniqueTitles])
    ELSE before

\* one turn of seriesMap.forEach
ForEachSeries(before, key, seriesBooksOf) ==
    PushSeries(before, key, seriesBooksOf, UniqueTitles(SortedByOrder(seriesBooksOf)))

\* seriesResults before its sort: one entry per key that passes, in key order
RECURSIVE SeriesResults(_, _)
SeriesResults(vols, keys) ==
    IF keys = << >> THEN << >>
    ELSE ForEachSeries(SeriesResults(vols, SubSeq(keys, 1, Len(keys) - 1)),
                       keys[Len(keys)], SeriesDataBooks(vols, keys[Len(keys)]))

\* bRelevance - aRelevance orders by falling relevance
Irrelevance(result) == 0 - (Len(result.books) * 2 + result.totalBooks)

ResultCount == 10

\* seriesResults left in the order of the map
SortedByRelevanceNot(results) == results

\* seriesResults.sort(by falling relevance)
SortedByRelevance(results) ==
    StableSort(results, [i \in 1 .. Len(results) |-> Irrelevance(results[i])])

\* .slice(0, 10)
FirstResults(sorted) == SubSeq(sorted, 1, Min(Len(sorted), ResultCount))

\* GET /api/search-series?q=...: hasQuery is whether q is given, fetchOk
\* whether Google Books answered
SearchSeries(hasQuery, fetchOk) ==
    /\ searchStatus = 0
    /\ IF ~hasQuery
       THEN seriesResults' = << >> /\ searchStatus' = 400
       ELSE IF ~fetchOk
       THEN seriesResults' = << >> /\ searchStatus' = 500
       ELSE /\ searchStatus' = 200
            /\ seriesResults' =
                  FirstResults(SortedByRelevance(SeriesResults(items, SeriesKeys(items))))
    /\ UNCHANGED <<seriesVars, detectVars, statsVars, otherVars>>
    /\ UNCHANGED storageVars
    /\ UNCHANGED clientVars
    /\ UNCHANGED historyVars
    /\ UNCHANGED streakVars

\* titles of the model: four of the series "Oz", two of them the same but
\* for punctuation and one numbered, one numbered book of another series,
\* one of a known series, one of no series
SearchTitles ==
    {<<"O", "z", ":", " ", "a">>, <<"O", "z", ":", " ", "a", "!">>,
     <<"O", "z", ":", " ", "b">>, <<"O", "z", ":", " ", "#", "3">>,
     <<"U", "p", " ", "#", "1">>,
     <<"d", "u", "n", "e", " ", "2">>, <<"x">>}

Volumes == [title : SearchTitles, author : Authors]

InitSearch ==
    /\ books = [b \in BookIds |-> NoBook]
    /\ daily_reading = {}
    /\ now = 1
    /\ ClientInit
    /\ HistoryInit
    /\ firstPast = [b \in BookIds |-> Null]
    /\ StreakIdle
    /\ seriesBooks = {}
    /\ items \in UNION {[1 .. n -> Volumes] : n \in 0 .. MaxVolumes}
    /\ uniqueBooks = << >>
    /\ suggestions = << >>
    /\ otherBooksInSeries = << >>
    /\ fpc = "idle"
    /\ seriesResults = << >>
    /\ searchStatus = 0
    /\ DetectIdle
    /\ StatsIdle
    /\ OtherIdle

NextSearch == \E hasQuery, fetchOk \in BOOLEAN : SearchSeries(hasQuery, fetchOk)

SpecSearch == InitSearch /\ [][NextSearch]_vars

(***************************************************************************)
(* The ranking model: Google Books answers with some of five volumes of    *)
(* one author, three of a series "A-z" and three of a series "Up", each at *)
(* most once, in any order.  Two titles of "Up" are equal once normalized  *)
(* and carry different orders.                                             *)
(***************************************************************************)
RankTitles ==
    {<<"A", "-", "z", ":", " ", "a">>, <<"A", "-", "z", ":", " ", "b">>,
     <<"A", "-", "z", ":", " ", "c">>,
     <<"U", "p", ":", " ", "#", "1", " ", "2">>,
     <<"U", "p", ":", " ", "1", " ", "#", "2">>,
     <<"U", "p", ":", " ", "#", "3">>}

RankAnswers ==
    {answer \in UNION {[1 .. n -> [title : RankTitles, author : {<<"b">>}]] :
                          n \in 0 .. Cardinality(RankTitles)} :
        \A i, j \in 1 .. Len(answer) : i # j => answer[i] # answer[j]}

InitRank ==
    /\ books = [b \in BookIds |-> NoBook]
    /\ daily_reading = {}
    /\ now = 1
    /\ ClientInit
    /\ HistoryInit
    /\ firstPast = [b \in BookIds |-> Null]
    /\ StreakIdle
    /\ seriesBooks = {}
    /\ items \in RankAnswers
    /\ uniqueBooks = << >>
    /\ suggestions = << >>
    /\ otherBooksInSeries = << >>
    /\ fpc = "idle"
    /\ seriesResults = << >>
    /\ searchStatus = 0
    /\ DetectIdle
    /\ StatsIdle
    /\ OtherIdle

SpecRank == InitRank /\ [][NextSearch]_vars

(***************************************************************************)
(* Series detection: SeriesDetectionService.detectSeries posts the book to *)
(* /api/detect-series, which asks the language model; both sides fall back *)
(* to the title patterns.  Confidence is in tenths.                        *)
(***************************************************************************)
\* basicPatterns (the same list in the route and in the service)
BasicPatterns ==
    <<[pre |-> <<[k |-> "lit", s |-> <<"b", "o", "o", "k">>, min |-> 0], [k |-> "ws", s |-> << >>, min |-> 1]>>, post |-> <<>>, ci |-> TRUE],
      [pre |-> <<[k |-> "lit", s |-> <<"#">>, min |-> 0]>>, post |-> <<>>, ci |-> FALSE],
      [pre |-> <<[k |-> "lit", s |-> <<"(">>, min |-> 0]>>, post |-> <<[k |-> "lit", s |-> <<")">>, min |-> 0]>>, ci |-> FALSE],
      [pre |-> <<[k |-> "lit", s |-> <<"v", "o", "l", "u", "m", "e">>, min |-> 0], [k |-> "ws", s |-> << >>, min |-> 1]>>, post |-> <<>>, ci |-> TRUE]>>

FallbackPatternDetection(title) ==
    IF MatchedDigits(title, BasicPatterns, 1) # << >>
    THEN [NoSeriesInfo EXCEPT !.isPartOfSeries = TRUE,
                              !.seriesOrder = ParseInt(MatchedDigits(title, BasicPatterns, 1)),
                              !.confidence = 5]
    ELSE [NoSeriesInfo EXCEPT !.confidence = 3]

\* what JSON.parse of the model's answer can give when it has a boolean isPartOfSeries
ParsedAnswers ==
    [isPartOfSeries : BOOLEAN, seriesName : {<< >>, SeriesName}, seriesOrder : {Null, 1},
     totalBooks : {Null}, confidence : {0 - 1, 0, 9, 12}]

\* the result the route builds from a parsed answer
SeriesInfoOf(parsed) ==
    [parsed EXCEPT !.confidence = Min(Max(parsed.confidence, 0), 10)]

\* detectSeries -> detectSeriesWithAPI: the request is sent
DetectSeries ==
    /\ dpc = "idle"
    /\ dpc' = "sent"
    /\ UNCHANGED <<bookInfo, detectResponse, detectResult, aiError>>
    /\ UNCHANGED <<seriesVars, searchVars, statsVars, otherVars>>
    /\ UNCHANGED storageVars
    /\ UNCHANGED clientVars
    /\ UNCHANGED historyVars
    /\ UNCHANGED streakVars

\* POST /api/detect-series.  hasKey: GROQ_API_KEY is set; answer: what the
\* completion call does ("throws", "empty", "unparsable", "invalid", or
\* "parsed" with the parsed answer); bodyAgain: whether the second request.json() of the catch
\* block can read the body once more (it cannot where a body is read once,
\* and the handler then fails with status 500).
DetectSeriesRoute(hasKey, answer, parsed, bodyAgain) ==
    /\ dpc = "sent"
    /\ IF ~hasKey
       THEN /\ detectResponse' = [status |-> 200, body |-> FallbackPatternDetection(bookInfo.title)]
            /\ aiError' = "no key"
       ELSE IF answer = "parsed"
       THEN /\ detectResponse' = [status |-> 200, body |-> SeriesInfoOf(parsed)]
            /\ aiError' = "none"
       ELSE /\ detectResponse' =
                  IF bodyAgain
                  THEN [status |-> 200, body |-> FallbackPatternDetection(bookInfo.title)]
                  ELSE [status |-> 500, body |-> NoSeriesInfo]
            /\ aiError' = answer
    /\ dpc' = "answered"
    /\ UNCHANGED <<bookInfo, detectResult>>
    /\ UNCHANGED <<seriesVars, searchVars, statsVars, otherVars>>
    /\ UNCHANGED storageVars
    /\ UNCHANGED clientVars
    /\ UNCHANGED historyVars
    /\ UNCHANGED streakVars

\* what detectSeriesWithAPI resolves to for a response
ApiResultNoFallback(response, title) == response.body
ApiResult(response, title) ==
    IF response.status # 200 THEN FallbackPatternDetection(title) ELSE response.body

\* detectSeriesWithAPI after the response
DetectSeriesWithAPI ==
    /\ dpc = "answered"
    /\ detectResult' = ApiResult(detectResponse, bookInfo.title)
    /\ dpc' = "done"
    /\ UNCHANGED <<bookInfo, detectResponse, aiError>>
    /\ UNCHANGED <<seriesVars, searchVars, statsVars, otherVars>>
    /\ UNCHANGED storageVars
    /\ UNCHANGED clientVars
    /\ UNCHANGED historyVars
    /\ UNCHANGED streakVars

\* detectSeriesWithAPI when fetch rejects: no response at all
DetectSeriesUnreachable ==
    /\ dpc = "sent"
    /\ detectResult' = FallbackPatternDetection(bookInfo.title)
    /\ aiError' = "unreachable"
    /\ dpc' = "done"
    /\ UNCHANGED <<bookInfo, detectResponse>>
    /\ UNCHANGED <<seriesVars, searchVars, statsVars, otherVars>>
    /\ UNCHANGED storageVars
    /\ UNCHANGED clientVars
    /\ UNCHANGED historyVars
    /\ UNCHANGED streakVars

\* titles of the model: with "#2", with "book 1", with "(3)", with no number
DetectTitles ==
    {<<"O", "z", " ", "#", "2">>, <<"O", "z", " ", "B", "o", "o", "k", " ", "1">>,
     <<"O", "z", " ", "(", "3", ")">>, <<"O", "z">>}

AnswerFailures == {"throws", "empty", "unparsable", "invalid"}

InitDetect ==
    /\ books = [b \in BookIds |-> NoBook]
    /\ daily_reading = {}
    /\ now = 1
    /\ ClientInit
    /\ HistoryInit
    /\ firstPast = [b \in BookIds |-> Null]
    /\ StreakIdle
    /\ SeriesIdle
    /\ SearchIdle
    /\ StatsIdle
    /\ OtherIdle
    /\ bookInfo \in [title : DetectTitles]
    /\ detectResponse = NoResponse
    /\ detectResult = NoSeriesInfo
    /\ aiError = "none"
    /\ dpc = "idle"

NextDetect ==
    \/ DetectSeries
    \/ \E hasKey, bodyAgain \in BOOLEAN, answer \in AnswerFailures \cup {"parsed"},
          parsed \in ParsedAnswers :
             DetectSeriesRoute(hasKey, answer, parsed, bodyAgain)
    \/ DetectSeriesWithAPI
    \/ DetectSeriesUnreachable

SpecDetect == InitDetect /\ [][NextDetect]_vars

(***************************************************************************)
(* The reading analysis: calculateReadingStatistics(books, readingProgress,*)
(* userSettings).  A day of the model's calendar is a month, DaysPerYear   *)
(* of them a year.  Objects keyed by text are sequences of entries in key  *)
(* order.                                                                  *)
(***************************************************************************)
\* NaN or Infinity: the value of a division by zero
NotANumber == 0 - 1

\* Math.round(n / d)
RoundDiv(n, d) == IF d = 0 THEN NotANumber ELSE (2 * n + d) \div (2 * d)

\* Math.round((n / d) * 100)
RoundPercent(n, d) == RoundDiv(100 * n, d)

\* readingTimes.reduce((sum, r) => sum + r.days, 0)
RECURSIVE SumDays(_)
SumDays(times) ==
    IF times = << >> THEN 0 ELSE Head(times).days + SumDays(Tail(times))

\* readingProgress.reduce((sum, r) => sum + r.pages_read, 0)
RECURSIVE SumPages(_)
SumPages(rows) ==
    IF rows = {} THEN 0
    ELSE LET r == CHOOSE x \in rows : TRUE
         IN r.pages_read + SumPages(rows \ {r})

\* getMonth() and getFullYear() together: the month, counted from the first
MonthOf(t) == t - 1

\* calculateStreaks(sortedDates) from turn i of its loop on
RECURSIVE StreakLoop(_, _, _, _, _)
StreakLoop(dates, i, longest, current, temp) ==
    IF i >= Len(dates)
    THEN [longestStreak |-> Max(longest, temp), currentStreak |-> current]
    ELSE IF DiffDays(dates[i], dates[i + 1]) <= 1
         THEN StreakLoop(dates, i + 1, longest,
                         IF i = 1 THEN temp + 1 ELSE current, temp + 1)
         ELSE StreakLoop(dates, i + 1, Max(longest, temp),
                         IF i = 1 THEN 1 ELSE current, 1)

StreaksOf(dates) ==
    IF Len(dates) = 0 THEN [longestStreak |-> 0, currentStreak |-> 0]
    ELSE StreakLoop(dates, 1, 1, 1, 1)

\* the keys of an object in the order of their first assignment
RECURSIVE KeysInOrder(_)
KeysInOrder(keys) ==
    IF keys = << >> THEN << >>
    ELSE LET before == KeysInOrder(SubSeq(keys, 1, Len(keys) - 1))
             key == keys[Len(keys)]
         IN IF \E k \in 1 .. Len(before) : before[k] = key THEN before
            ELSE Append(before, key)

\* every genre entry of every book, in order
RECURSIVE GenreEntries(_)
GenreEntries(arr) ==
    IF arr = << >> THEN << >> ELSE Head(arr).genre \o GenreEntries(Tail(arr))

FallingCount(entry) == 0 - entry.count

\* the percentage of a genre: the zero fallback for no books
GenrePercentageUnguarded(count, totalBooks) == RoundPercent(count, totalBooks)
GenrePercentage(count, totalBooks) ==
    IF totalBooks > 0 THEN RoundPercent(count, totalBooks) ELSE 0

\* calculateGenreDistribution counting every genre once, however many books list it
CalculateGenreDistributionDistinct(arr) ==
    LET genres == KeysInOrder(GenreEntries(arr))
    IN [k \in 1 .. Len(genres) |->
           [genre |-> genres[k], count |-> 1, percentage |-> GenrePercentage(1, Len(arr))]]

CalculateGenreDistribution(arr) ==
    LET entries == GenreEntries(arr)
        genres == KeysInOrder(entries)
        count(g) == Cardinality({i \in 1 .. Len(entries) : entries[i] = g})
        distribution == [k \in 1 .. Len(genres) |->
                            [genre |-> genres[k], count |-> count(genres[k]),
                             percentage |-> GenrePercentage(count(genres[k]), Len(arr))]]
    IN StableSort(distribution,
                  [k \in 1 .. Len(distribution) |-> FallingCount(distribution[k])])

CalculateAuthorStats(arr) ==
    LET authors == KeysInOrder([i \in 1 .. Len(arr) |-> arr[i].author])
        count(a) == Cardinality({i \in 1 .. Len(arr) : arr[i].author = a})
        authorStats == [k \in 1 .. Len(authors) |->
                           [author |-> authors[k], count |-> count(authors[k])]]
    IN StableSort(authorStats,
                  [k \in 1 .. Len(authorStats) |-> FallingCount(authorStats[k])])

\* calculateSeriesProgress counting every member of a series as completed
CalculateSeriesProgressAllCompleted(arr) ==
    LET inSeries(b) == b.is_part_of_series /\ b.series_name # "null"
        members == SelectSeq(arr, inSeries)
        names == KeysInOrder([i \in 1 .. Len(members) |-> members[i].series_name])
    IN [k \in 1 .. Len(names) |->
           [series |-> names[k],
            total |-> Cardinality({i \in 1 .. Len(members) :
                                     members[i].series_name = names[k]}),
            completed |-> Cardinality({i \in 1 .. Len(members) :
                                         members[i].series_name = names[k]})]]

CalculateSeriesProgress(arr) ==
    LET inSeries(b) == b.is_part_of_series /\ b.series_name # "null"
        members == SelectSeq(arr, inSeries)
        names == KeysInOrder([i \in 1 .. Len(members) |-> members[i].series_name])
    IN [k \in 1 .. Len(names) |->
           [series |-> names[k],
            total |-> Cardinality({i \in 1 .. Len(members) :
                                     members[i].series_name = names[k]}),
            completed |-> Cardinality({i \in 1 .. Len(members) :
                                         /\ members[i].series_name = names[k]
                                         /\ members[i].status = "past"})]]

\* the loop of calculateMonthlyStats runs i from MonthsBack down to 0
MonthsBack == 5

CalculateMonthlyStats(arr, readingProgress, currentDate) ==
    [k \in 1 .. (MonthsBack + 1) |->
        LET targetDate == MonthOf(currentDate) - (MonthsBack + 1 - k)
            completedThen(b) ==
               b.date_completed # Null /\ MonthOf(b.date_completed) = targetDate
            rows == {r \in readingProgress : MonthOf(r.date) = targetDate}
        IN [month |-> targetDate,
            booksCompleted |-> Len(SelectSeq(arr, completedThen)),
            pagesRead |-> SumPages(rows)]]

\* the book lengths that part short from medium and medium from long
MediumPages == 250
LongPages == 500

\* readingTimes: title, days and pages of the completed books with both dates
ReadingTimes(arr) ==
    LET dated(b) == b.status = "past" /\ b.date_added # Null /\ b.date_completed # Null
        completedBooksWithDates == SelectSeq(arr, dated)
    IN [i \in 1 .. Len(completedBooksWithDates) |->
           [title |-> completedBooksWithDates[i].title,
            days |-> completedBooksWithDates[i].date_completed
                        - completedBooksWithDates[i].date_added,
            pages |-> completedBooksWithDates[i].total_pages]]

\* the reduce of fastestRead taking the later of two equally fast books
RECURSIVE FastestLatest(_)
FastestLatest(times) ==
    IF Len(times) = 1 THEN times[1]
    ELSE LET fastest == FastestLatest(SubSeq(times, 1, Len(times) - 1))
             current == times[Len(times)]
         IN IF current.days <= fastest.days THEN current ELSE fastest

\* reduce((fastest, current) => current.days < fastest.days ? current : fastest)
RECURSIVE Fastest(_)
Fastest(times) ==
    IF Len(times) = 1 THEN times[1]
    ELSE LET fastest == Fastest(SubSeq(times, 1, Len(times) - 1))
             current == times[Len(times)]
         IN IF current.days < fastest.days THEN current ELSE fastest

NoRead == [title |-> "null", days |-> 0, pages |-> 0]

\* completionRate taken of the books that are not completed
CompletionRateOfRest(completedBooks, totalBooks) ==
    IF totalBooks > 0 THEN RoundPercent(totalBooks - completedBooks, totalBooks) ELSE 0
\* completionRate: the zero fallback for no books
CompletionRateUnguarded(completedBooks, totalBooks) == RoundPercent(completedBooks, totalBooks)
CompletionRate(completedBooks, totalBooks) ==
    IF totalBooks > 0 THEN RoundPercent(completedBooks, totalBooks) ELSE 0

\* calculateReadingStatistics, called on day today
CalculateReadingStatistics(arr, readingProgress, userSettings, today) ==
    LET currentYear == YearOf(today)
        isPast(b) == b.status = "past"
        isCurrent(b) == b.status = "current"
        isPlanned(b) == b.status = "planned"
        thisYear(b) == b.date_completed # Null /\ YearOf(b.date_completed) = currentYear
        isShort(b) == b.total_pages # Null /\ b.total_pages < MediumPages
        isMedium(b) == /\ b.total_pages # Null
                       /\ b.total_pages >= MediumPages
                       /\ b.total_pages < LongPages
        isLong(b) == b.total_pages # Null /\ b.total_pages >= LongPages
        readingGoal == IF userSettings.exists THEN userSettings.reading_goal ELSE 0
        booksThisYear == Len(SelectSeq(arr, thisYear))
        activeDays == Cardinality({r.date : r \in readingProgress})
        totalPagesRead == SumPages(readingProgress)
        streaks == StreaksOf(SortedDates(readingProgress, MaxDate))
        readingTimes == ReadingTimes(arr)
    IN [totalBooks |-> Len(arr),
        completedBooks |-> Len(SelectSeq(arr, isPast)),
        currentlyReading |-> Len(SelectSeq(arr, isCurrent)),
        plannedBooks |-> Len(SelectSeq(arr, isPlanned)),
        completionRate |-> CompletionRate(Len(SelectSeq(arr, isPast)), Len(arr)),
        readingGoal |-> readingGoal,
        booksThisYear |-> booksThisYear,
        goalProgress |-> IF readingGoal > 0 THEN RoundPercent(booksThisYear, readingGoal) ELSE 0,
        activeDays |-> activeDays,
        totalPagesRead |-> totalPagesRead,
        averagePagesPerDay |-> IF activeDays > 0 THEN RoundDiv(totalPagesRead, activeDays) ELSE 0,
        longestStreak |-> streaks.longestStreak,
        currentStreak |-> streaks.currentStreak,
        genreDistribution |-> CalculateGenreDistribution(arr),
        authorStats |-> CalculateAuthorStats(arr),
        seriesProgress |-> CalculateSeriesProgress(arr),
        monthlyStats |-> CalculateMonthlyStats(arr, readingProgress, today),
        averageTimePerBook |-> IF Len(readingTimes) > 0
                               THEN RoundDiv(SumDays(readingTimes), Len(readingTimes))
                               ELSE 0,
        fastestRead |-> IF Len(readingTimes) > 0 THEN Fastest(readingTimes) ELSE NoRead,
        averageReadingDays |-> IF Len(readingTimes) > 0
                               THEN RoundDiv(SumDays(readingTimes), Len(readingTimes))
                               ELSE 0,
        booksByLength |-> [short |-> Len(SelectSeq(arr, isShort)),
                           medium |-> Len(SelectSeq(arr, isMedium)),
                           long |-> Len(SelectSeq(arr, isLong))]]

(***************************************************************************)
(* The dashboard's loadStats and the recommendations page's                *)
(* fetchReadingGoals, over the same three tables.  The model's calendar    *)
(* has one day a month and DaysPerYear months a year.                      *)
(***************************************************************************)
\* getMonth()
MonthOfYear(t) == (t - 1) % DaysPerYear

\* Math.min(100, Math.round((booksThisYear / reading_goal) * 100)), 0 for no goal
GoalPercentage(booksThisYear, settings) ==
    IF settings.exists /\ settings.reading_goal # 0
    THEN Min(100, RoundPercent(booksThisYear, settings.reading_goal))
    ELSE 0

\* favoriteGenres keeps the first TopGenres entries
TopGenres == 5
\* averagePagesPerDay divides the pages of all days by AveragingDays
AveragingDays == 30

\* what loadStats hands setStats; averageBooksPerMonth and completionRate are
\* rounded to one decimal by toFixed(1) and are held here in tenths
LoadStatsResult(data, today) ==
    LET arr == data.books
        dailyProgress == data.readingProgress
        currentYear == YearOf(today)
        isCompleted(b) == b.status = "past" /\ b.date_completed # Null
        completedBooks == SelectSeq(arr, isCompleted)
        thisYear(b) == b.date_completed # Null /\ YearOf(b.date_completed) = currentYear
        lastYear(b) == b.date_completed # Null /\ YearOf(b.date_completed) = currentYear - 1
        booksThisYear == SelectSeq(completedBooks, thisYear)
        entries == GenreEntries(arr)
        genres == KeysInOrder(entries)
        genreCounts == [k \in 1 .. Len(genres) |->
                           [genre |-> genres[k],
                            count |-> Cardinality({i \in 1 .. Len(entries) :
                                                      entries[i] = genres[k]})]]
        sortedGenres == StableSort(genreCounts,
                            [k \in 1 .. Len(genreCounts) |-> FallingCount(genreCounts[k])])
        total == SumPages(dailyProgress)
    IN [totalBooks |-> Len(arr),
        booksThisYear |-> Len(booksThisYear),
        booksLastYear |-> Len(SelectSeq(completedBooks, lastYear)),
        averageBooksPerMonth |-> RoundDiv(10 * Len(booksThisYear), DaysPerYear),
        completionRate |-> IF Len(arr) # 0
                           THEN RoundDiv(1000 * Len(completedBooks), Len(arr))
                           ELSE 0,
        favoriteGenres |-> SubSeq(sortedGenres, 1, Min(TopGenres, Len(sortedGenres))),
        currentStreak |-> CalculateStreak(dailyProgress, today),
        monthlyStats |-> [k \in 1 .. DaysPerYear |->
                             LET inMonth(b) == MonthOfYear(b.date_completed) = k - 1
                             IN [books |-> Len(SelectSeq(booksThisYear, inMonth)),
                                 pages |-> SumPages({r \in dailyProgress :
                                                        /\ YearOf(r.date) = currentYear
                                                        /\ MonthOfYear(r.date) = k - 1})]],
        readingGoalProgress |-> GoalPercentage(Len(booksThisYear), data.userSettings),
        totalPagesRead |-> total,
        averagePagesPerDay |-> RoundDiv(total, AveragingDays)]

\* what fetchReadingGoals hands setReadingGoals, its two requests answered
ReadingGoalsResult(data, today) ==
    LET isPast(b) == b.status = "past"
        fetchedBooks == SelectSeq(data.books, isPast)
        thisYear(b) == b.date_completed # Null /\ YearOf(b.date_completed) = YearOf(today)
        booksThisYear == Len(SelectSeq(fetchedBooks, thisYear))
    IN [yearlyGoal |-> data.userSettings.reading_goal,
        progress |-> booksThisYear,
        progressPercentage |-> GoalPercentage(booksThisYear, data.userSettings)]

(***************************************************************************)
(* The statistics model: any small library, diary and settings row, read   *)
(* by the reading-analysis route around the turn of a year.                *)
(***************************************************************************)
\* a request to POST /api/reading-analysis, as far as the stats
ReadingAnalysis ==
    /\ Len(stats) < 2
    /\ stats' = Append(stats, CalculateReadingStatistics(userData.books,
                                  userData.readingProgress, userData.userSettings, now))
    /\ UNCHANGED <<userData, dashStats, loading, readingGoals, gpc>>
    /\ UNCHANGED storageVars
    /\ UNCHANGED clientVars
    /\ UNCHANGED historyVars
    /\ UNCHANGED streakVars
    /\ UNCHANGED <<seriesVars, searchVars, detectVars, otherVars>>

\* loadDashboardData, as far as loadStats
LoadStats ==
    /\ loading
    /\ dashStats' = LoadStatsResult(userData, now)
    /\ loading' = FALSE
    /\ UNCHANGED <<userData, stats, readingGoals, gpc>>
    /\ UNCHANGED storageVars
    /\ UNCHANGED clientVars
    /\ UNCHANGED historyVars
    /\ UNCHANGED streakVars
    /\ UNCHANGED <<seriesVars, searchVars, detectVars, otherVars>>

\* fetchReadingGoals; .single() answers no row with an error, which is thrown and logged
FetchReadingGoals ==
    /\ gpc = "idle"
    /\ gpc' = "done"
    /\ readingGoals' = IF userData.userSettings.exists
                       THEN <<ReadingGoalsResult(userData, now)>>
                       ELSE readingGoals
    /\ UNCHANGED <<userData, stats, dashStats, loading>>
    /\ UNCHANGED storageVars
    /\ UNCHANGED clientVars
    /\ UNCHANGED historyVars
    /\ UNCHANGED streakVars
    /\ UNCHANGED <<seriesVars, searchVars, detectVars, otherVars>>

\* midnight of the last day of the year
NewYear == AdvanceClock(DaysPerYear + 1)

\* a books row as the statistics read it
BookRow(st, completed, genre) ==
    [status |-> st, date_completed |-> completed, date_added |-> 1, genre |-> genre,
     author |-> "a", is_part_of_series |-> TRUE, series_name |-> "S",
     total_pages |-> MaxTotal, title |-> "t"]

StatsBooks ==
    {BookRow(sd[1], sd[2], genre) :
        sd \in {<<"planned", Null>>, <<"current", Null>>,
                <<"past", DaysPerYear - 1>>, <<"past", DaysPerYear>>},
        genre \in {<< >>, <<"g1">>, <<"g1", "g2">>}}

StatsDiary ==
    {[book_id |-> "b1", date |-> 1, pages_read |-> 1],
     [book_id |-> "b1", date |-> DaysPerYear, pages_read |-> MaxDelta]}

\* the titles of the books of a library, by their place in the query's answer
StatsTitles == <<"t1", "t2", "t3", "t4">>

\* the rows with each its own title
Titled(rows) == [i \in 1 .. Len(rows) |-> [rows[i] EXCEPT !.title = StatsTitles[i]]]

StatsSettings ==
    {NoSettings} \cup {[exists |-> TRUE, reading_goal |-> g] : g \in {0, 1, MaxGoal}}

InitStats ==
    /\ books = [b \in BookIds |-> NoBook]
    /\ daily_reading = {}
    /\ now = DaysPerYear
    /\ ClientInit
    /\ HistoryInit
    /\ firstPast = [b \in BookIds |-> Null]
    /\ StreakIdle
    /\ SeriesIdle
    /\ SearchIdle
    /\ DetectIdle
    /\ OtherIdle
    /\ userData \in {[books |-> Titled(rows), readingProgress |-> diary,
                      userSettings |-> settings] :
                        rows \in UNION {[1 .. n -> StatsBooks] : n \in 0 .. MaxBooks},
                        diary \in SUBSET StatsDiary,
                        settings \in StatsSettings}
    /\ stats = << >>
    /\ dashStats = NoStats
    /\ loading = TRUE
    /\ readingGoals = << >>
    /\ gpc = "idle"

NextStats ==
    \/ ReadingAnalysis
    \/ NewYear

SpecStats == InitStats /\ [][NextStats]_vars

(***************************************************************************)
(* The goal model: the same inputs, shown by the dashboard and by the      *)
(* recommendations page.                                                   *)
(***************************************************************************)
NextGoal ==
    \/ LoadStats
    \/ FetchReadingGoals
    \/ NewYear

SpecGoal == InitStats /\ [][NextGoal]_vars

(***************************************************************************)
(* The shelf model: a library of books in and out of series, their status  *)
(* changed on the shelves, read by the reading-analysis route.             *)
(***************************************************************************)
\* a row of the books table as the query of the route returns it
BookRecord(row) ==
    [status |-> row.status, date_completed |-> row.date_completed, date_added |-> 1,
     genre |-> << >>, author |-> "a", is_part_of_series |-> row.is_part_of_series,
     series_name |-> row.series_name, total_pages |-> row.total_pages, title |-> "t"]

\* the orders the query can return the books of the set in
QueryOrders(ids) ==
    {ord \in [1 .. Cardinality(ids) -> ids] :
        \A i, j \in 1 .. Cardinality(ids) : i # j => ord[i] # ord[j]}

\* a request to POST /api/reading-analysis: the three queries, then the stats
ReadingAnalysisOfLibrary ==
    /\ stats = << >>
    /\ \E ord \in QueryOrders(Owned(books)) :
          userData' = [books |-> [i \in 1 .. Len(ord) |-> BookRecord(books[ord[i]])],
                       readingProgress |-> daily_reading,
                       userSettings |-> NoSettings]
    /\ stats' = <<CalculateReadingStatistics(userData'.books, userData'.readingProgress,
                                             userData'.userSettings, now)>>
    /\ UNCHANGED <<dashStats, loading, readingGoals, gpc>>
    /\ UNCHANGED storageVars
    /\ UNCHANGED clientVars
    /\ UNCHANGED historyVars
    /\ UNCHANGED streakVars
    /\ UNCHANGED <<seriesVars, searchVars, detectVars, otherVars>>

ShelfSeries == {"null", "S", "T"}

\* the rows the series page's form inserts
ShelfRows ==
    {[status |-> st, date_completed |-> DateCompletedAtInsert(st, 1),
      current_page |-> 0, total_pages |-> MaxTotal,
      is_part_of_series |-> isPartOfSeries,
      series_name |-> IF isPartOfSeries THEN seriesName ELSE "null"] :
        st \in Statuses, isPartOfSeries \in BOOLEAN, seriesName \in ShelfSeries}

InitShelf ==
    /\ books \in [BookIds -> ShelfRows]
    /\ daily_reading = {}
    /\ now = 1
    /\ ClientInit
    /\ HistoryInit
    /\ firstPast = [b \in BookIds |-> books[b].date_completed]
    /\ StreakIdle
    /\ PureIdle

NextShelf ==
    \/ \E b \in BookIds, newStatus \in Statuses : UpdateBookStatus(b, newStatus)
    \/ ReadingAnalysisOfLibrary

SpecShelf == InitShelf /\ [][NextShelf]_vars

(***************************************************************************)
(* SeriesProgress.confirmDeleteBook: delete the daily_reading rows of the  *)
(* book, throw on an error, then delete the books row, throw on an error,  *)
(* then loadSeriesBooks(), the toast and closeDeleteDialog(); the catch    *)
(* shows the error toast.  daily_reading.book_id references books(id): a   *)
(* books row that a daily_reading row refers to cannot be deleted.         *)
(***************************************************************************)
OpenDeleteDialog(b) ==
    /\ delpc = "idle"
    /\ BookExists(b)
    /\ deleteDialog' = b
    /\ UNCHANGED <<delpc, toast, deletedBooks>>
    /\ UNCHANGED <<storageVars, clientVars, historyVars, streakVars>>
    /\ UNCHANGED <<seriesVars, searchVars, detectVars, statsVars>>
    /\ UNCHANGED <<dashVars, addVars>>

\* .from('daily_reading').delete().eq('book_id', book.id): the rows go where a
\* policy lets the user delete them; where none does (README.md declares
\* none) the statement sees no row and reports no error
DeleteDailyReading(b, policy) ==
    IF policy THEN {r \in daily_reading : r.book_id # b} ELSE daily_reading

\* up to the answer to the first delete
ConfirmDeleteBook(netOk, policy) ==
    /\ deleteDialog # "none"
    /\ delpc = "idle"
    /\ IF netOk
       THEN /\ daily_reading' = DeleteDailyReading(deleteDialog, policy)
            /\ delpc' = "book"
            /\ toast' = toast
       ELSE /\ daily_reading' = daily_reading
            /\ delpc' = "idle"
            /\ toast' = "error"
    /\ UNCHANGED <<deleteDialog, deletedBooks>>
    /\ UNCHANGED <<books, now>>
    /\ UNCHANGED <<clientVars, historyVars, streakVars>>
    /\ UNCHANGED <<seriesVars, searchVars, detectVars, statsVars>>
    /\ UNCHANGED <<dashVars, addVars>>

\* the foreign key is not checked
ReferencedNever(b) == FALSE

\* a daily_reading row refers to the book
Referenced(b) == \E r \in daily_reading : r.book_id = b

\* from the second delete to the end
DeleteBookRow(netOk) ==
    /\ delpc = "book"
    /\ IF netOk /\ ~Referenced(deleteDialog)
       THEN /\ books' = [books EXCEPT ![deleteDialog] = NoBook]
            /\ deletedBooks' = deletedBooks \cup {b \in {deleteDialog} : BookExists(b)}
            /\ toast' = "deleted"
            /\ deleteDialog' = "none"
       ELSE /\ toast' = "error"
            /\ UNCHANGED <<books, deletedBooks, deleteDialog>>
    /\ delpc' = "idle"
    /\ UNCHANGED <<daily_reading, now>>
    /\ UNCHANGED <<clientVars, historyVars, streakVars>>
    /\ UNCHANGED <<seriesVars, searchVars, detectVars, statsVars>>
    /\ UNCHANGED <<dashVars, addVars>>

(***************************************************************************)
(* The delete model: one book of a series being read, a ReadingProgress    *)
(* tab logging pages and a SeriesProgress page deleting the book.          *)
(***************************************************************************)
InitDelete ==
    /\ \E total \in {Null} \cup (1 .. MaxTotal) :
          books = [b \in BookIds |->
                      IF b = "b1"
                      THEN [NoBook EXCEPT !.status = "current", !.total_pages = total,
                                          !.is_part_of_series = TRUE, !.series_name = "S"]
                      ELSE NoBook]
    /\ daily_reading = {}
    /\ now = 1
    /\ currentBook = [t \in Tabs |-> Mounted("b1")]
    /\ pagesRead = [t \in Tabs |-> 0]
    /\ reload = [t \in Tabs |-> FALSE]
    /\ pc = [t \in Tabs |-> "idle"]
    /\ call = [t \in Tabs |-> NoCall]
    /\ HistoryInit
    /\ firstPast = [b \in BookIds |-> Null]
    /\ StreakIdle
    /\ PureIdle

NextDelete ==
    \/ \E t \in Tabs, g \in {Null, GooglePages}, netOk \in BOOLEAN : LoadCurrentBook(t, g, netOk)
    \/ \E t \in Tabs, v \in PagesInputs : RPStart(t, v)
    \/ \E t \in Tabs, netOk \in BOOLEAN : RPUpsert(t, netOk)
    \/ \E t \in Tabs, netOk \in BOOLEAN : RPUpdate(t, netOk)
    \/ \E b \in BookIds : OpenDeleteDialog(b)
    \/ \E netOk, policy \in BOOLEAN : ConfirmDeleteBook(netOk, policy)
    \/ \E netOk \in BOOLEAN : DeleteBookRow(netOk)
    \/ NextDay

SpecDelete == InitDelete /\ [][NextDelete]_vars

(***************************************************************************)
(* POST /api/add-series, one request at a time or several at once: select  *)
(* the user's books of the series, keep the books of the request whose     *)
(* lower-cased title none of them has, answer if none is left, otherwise   *)
(* insert them in one statement and answer with the counts.                *)
(***************************************************************************)
\* existingTitles: the lower-cased titles of the rows the select returned
ExistingTitles(rows) == {ToLowerCase(title) : title \in {x \in SeriesTitles : rows[x] > 0}}

\* newBooks
NewBooks(requested, existingTitles) ==
    SelectSeq(requested, LAMBDA title : ToLowerCase(title) \notin existingTitles)

\* the rows after .insert(booksToInsert)
InsertBooks(rows, booksToInsert) ==
    [title \in SeriesTitles |->
        rows[title] + Len(SelectSeq(booksToInsert, LAMBDA x : x = title))]

\* from the arrival of the request to what follows the select
AddSeriesCheck(p, requested, netOk) ==
    /\ addReq[p].pc = "idle"
    /\ LET newBooks == NewBooks(requested, ExistingTitles(shelf))
       IN addReq' = [addReq EXCEPT ![p] =
             IF ~netOk
             THEN [NoRequest EXCEPT !.pc = "done", !.books = requested, !.status = 500]
             ELSE IF Len(newBooks) = 0
                  THEN [pc |-> "done", books |-> requested, newBooks |-> newBooks,
                        status |-> 200, added |-> 0, skipped |-> Len(requested)]
                  ELSE [NoRequest EXCEPT !.pc = "insert", !.books = requested,
                                         !.newBooks = newBooks]]
    /\ UNCHANGED shelf
    /\ UNCHANGED <<storageVars, clientVars, historyVars, streakVars>>
    /\ UNCHANGED <<seriesVars, searchVars, detectVars, statsVars>>
    /\ UNCHANGED <<dashVars, deleteVars>>

\* the insert and the answer
AddSeriesInsert(p, netOk) ==
    /\ addReq[p].pc = "insert"
    /\ LET req == addReq[p]
       IN IF netOk
          THEN /\ shelf' = InsertBooks(shelf, req.newBooks)
               /\ addReq' = [addReq EXCEPT ![p] =
                     [req EXCEPT !.pc = "done", !.status = 200,
                                 !.added = Len(req.newBooks),
                                 !.skipped = Len(req.books) - Len(req.newBooks)]]
          ELSE /\ shelf' = shelf
               /\ addReq' = [addReq EXCEPT ![p] = [req EXCEPT !.pc = "done", !.status = 500]]
    /\ UNCHANGED <<storageVars, clientVars, historyVars, streakVars>>
    /\ UNCHANGED <<seriesVars, searchVars, detectVars, statsVars>>
    /\ UNCHANGED <<dashVars, deleteVars>>

(***************************************************************************)
(* The add-series model: a library with no two books of the series of one  *)
(* lower-cased title, and MaxRequests requests of up to MaxRequested books *)
(* each, in any interleaving.                                              *)
(***************************************************************************)
\* no two rows of the series with the same title, compared case-insensitively
NoDuplicateTitles(rows) ==
    \A x, y \in SeriesTitles :
       /\ rows[x] <= 1
       /\ (x # y /\ ToLowerCase(x) = ToLowerCase(y)) => rows[x] + rows[y] <= 1

RequestedBooks == UNION {[1 .. n -> SeriesTitles] : n \in 1 .. MaxRequested}

InitAdd ==
    /\ books = [b \in BookIds |-> NoBook]
    /\ daily_reading = {}
    /\ now = 1
    /\ ClientInit
    /\ HistoryInit
    /\ firstPast = [b \in BookIds |-> Null]
    /\ StreakIdle
    /\ SeriesIdle
    /\ SearchIdle
    /\ DetectIdle
    /\ StatsIdle
    /\ DashIdle
    /\ DeleteIdle
    /\ shelf \in {rows \in [SeriesTitles -> 0 .. 1] : NoDuplicateTitles(rows)}
    /\ addReq = [p \in AddRequests |-> NoRequest]

NextAdd ==
    \/ \E p \in AddRequests, requested \in RequestedBooks, netOk \in BOOLEAN :
          AddSeriesCheck(p, requested, netOk)
    \/ \E p \in AddRequests, netOk \in BOOLEAN : AddSeriesInsert(p, netOk)

SpecAdd == InitAdd /\ [][NextAdd]_vars

C2_NeverDecreases ==
    [][\A b \in BookIds : books'[b].current_page >= books[b].current_page]_vars

\* C3 (as claimed): once the table has answered a log (with success or with
\* an error of its own), daily_reading holds exactly one row for the log's
\* (book, date), and the row carries the log's pages_read.
C3_OneRowLastValue ==
    [][\A t \in Tabs :
          (call[t].progress = "pending" /\ call'[t].progress \in {"ok", "duplicate"}) =>
             LET rows == {r \in daily_reading' :
                             r.book_id = call[t].book.id /\ r.date = call[t].date}
             IN /\ Cardinality(rows) = 1
                /\ \A r \in rows : r.pages_read = call[t].pagesRead]_vars

\* C4 (as claimed): once a call has completed, the daily_reading upsert and
\* the books update have both been applied or neither has.
C4_BothOrNeither ==
    \A t \in Tabs :
       (pc[t] = "idle" /\ call[t] # NoCall) =>
          ((call[t].progress = "ok") <=> (call[t].update = "ok"))

\* C5 (as claimed): with no call running, the stored current_page is
\* min(0 + the sum of the logged deltas, total_pages).
C5_Accumulates ==
    (\A t \in Tabs : pc[t] = "idle") =>
       \A b \in BookIds :
          books[b].status # "absent" =>
             books[b].current_page =
                IF books[b].total_pages # Null
                THEN Min(logged[b], books[b].total_pages)
                ELSE logged[b]

(***************************************************************************)
(* Claims about status changes and booksThisYear, checked under SpecStatus.*)
(***************************************************************************)
\* C6 (as claimed): a status change to 'past' sets date_completed to the
\* current time only if it is not set, and keeps a date_completed that is.
C6_KeepsFirstCompletion ==
    [][\A b \in BookIds :
          (books[b].status \in {"planned", "current"} /\ books'[b].status = "past") =>
             books'[b].date_completed =
                IF books[b].date_completed # Null THEN books[b].date_completed ELSE now]_vars

\* C6 (amended): a status change to 'past' sets date_completed to the current
\* time, whether or not it was set before.
C6_AlwaysNow ==
    [][\A b \in BookIds :
          (books[b].status \in {"planned", "current"} /\ books'[b].status = "past") =>
             books'[b].date_completed = now]_vars

\* C6 witness: a book back in 'past' with a date_completed later than its first
C6_Witness ==
    \E b \in BookIds :
       /\ books[b].status = "past"
       /\ firstPast[b] # Null
       /\ books[b].date_completed > firstPast[b]

\* C7: a status change to 'planned' or 'current' changes the status column of
\* the row and nothing else.
C7_OnlyStatus ==
    [][\A b \in BookIds :
          (books[b].status # "absent" /\ books'[b].status \in {"planned", "current"}
           /\ books'[b].status # books[b].status) =>
             books'[b] = [books[b] EXCEPT !.status = books'[b].status]]_vars

\* C7 witness: a book moved away from 'past' still has its date_completed
C7_Witness ==
    \E b \in BookIds :
       /\ books[b].status \in {"planned", "current"}
       /\ books[b].date_completed # Null
       /\ books[b].is_part_of_series

\* C8: date_completed is non-null iff the book has at some point been 'past'.
C8_CompletedIffEverPast ==
    \A b \in BookIds :
       books[b].status # "absent" =>
          (books[b].date_completed # Null <=> firstPast[b] # Null)

\* C8 witness: one book that was 'past' and no longer is, one that never was
C8_Witness ==
    \E b, c \in BookIds :
       /\ books[b].status = "current" /\ firstPast[b] # Null
       /\ books[c].status = "planned" /\ firstPast[c] = Null

\* C9 (as claimed): each of the three booksThisYear counts is the number of
\* books with status 'past' and date_completed in the current year.
C9_CountsPastThisYear ==
    LET currentYear == YearOf(now)
        expected == Cardinality({b \in Owned(books) :
                                    books[b].status = "past"
                                    /\ books[b].date_completed # Null
                                    /\ YearOf(books[b].date_completed) = currentYear})
    IN /\ BooksThisYearAnalysis(books, currentYear) = expected
       /\ BooksThisYearDashboard(books, currentYear) = expected
       /\ BooksThisYearRecommendations(books, currentYear) = expected

(***************************************************************************)
(* Claims about calculateStreaks, checked under SpecStreak.                *)
(***************************************************************************)
ActiveDates == {r.date : r \in daily_reading}

\* the length of the longest run of consecutive days in a set of days
LongestRun(days) ==
    LET runs == {k \in 1 .. MaxDate : \E d \in days : \A j \in 0 .. (k - 1) : d + j \in days}
    IN IF days = {} THEN 0 ELSE CHOOSE k \in runs : \A m \in runs : m <= k

\* C10 (as claimed): longestStreak is the length of the longest run of
\* consecutive days among the distinct entry dates.
C10_LongestRunOfDistinctDates ==
    spc = "done" => longestStreak = LongestRun(ActiveDates)

\* the most recent entry date
LatestDate == CHOOSE d \in ActiveDates : \A e \in ActiveDates : e <= d

\* the length of the run of consecutive days that ends on day d
RunEndingAt(days, d) ==
    LET runs == {k \in 1 .. MaxDate : \A j \in 0 .. (k - 1) : d - j \in days}
    IN CHOOSE k \in runs : \A m \in runs : m <= k

\* C11 (as claimed): calculateStreaks' currentStreak is the length of the run
\* of consecutive days that ends at the most recent entry date (stated here
\* for tables with one entry per date, where the dates are distinct).
C11_CurrentStreakIsRun ==
    (spc = "done" /\ daily_reading # {}
     /\ Cardinality(daily_reading) = Cardinality(ActiveDates)) =>
       currentStreak = RunEndingAt(ActiveDates, LatestDate)

\* C12 (as claimed): when the most recent entry date is more than one day
\* before today, each of the three current-streak computations gives 0.
C12_BrokenStreakIsZero ==
    (spc = "done" /\ daily_reading # {} /\ now - LatestDate > 1) =>
       /\ currentStreak = 0
       /\ CalculateStreak(daily_reading, now) = 0
       /\ LoadReadingStreak(daily_reading, now) = 0

(***************************************************************************)
(* Claims about the 'Others in Series' suggestions, checked under          *)
(* SpecSeries.                                                             *)
(***************************************************************************)
\* a title the user has: one of the user's titles contains it or is contained
\* in it, case ignored
Owned13(bookTitle) ==
    \E title \in seriesBooks :
       \/ Includes(ToLowerCase(title), ToLowerCase(bookTitle))
       \/ Includes(ToLowerCase(bookTitle), ToLowerCase(title))

\* C13 (as claimed): no title of the 'Others in Series' list is one the user
\* has, where having is a case-insensitive substring match in either direction.
C13_NoOwnedSuggestion ==
    fpc = "done" =>
       \A i \in 1 .. Len(otherBooksInSeries) : ~Owned13(otherBooksInSeries[i])

\* C14 (as claimed): the response holds at most 5 titles, those of the
\* candidates in publish-date order: known dates ascending, unknown dates
\* after known ones, equal or unknown dates in alphabetical order of title.
C14_SortedByDate ==
    fpc \in {"answered", "done"} =>
       /\ Len(suggestions) <= SliceCount
       /\ suggestions = SuggestionsOf(uniqueBooks)
       /\ \A i, j \in 1 .. Len(uniqueBooks) :
             i < j =>
                LET a == uniqueBooks[i]
                    b == uniqueBooks[j]
                IN /\ a.publishedDate = Null => b.publishedDate = Null
                   /\ (a.publishedDate # Null /\ b.publishedDate # Null) =>
                         a.publishedDate <= b.publishedDate
                   /\ a.publishedDate = b.publishedDate =>
                         LocaleCompare(a.title, b.title) <= 0

(***************************************************************************)
(* Claims about /api/search-series, checked under SpecSearch.              *)
(***************************************************************************)
\* the number of different titles, punctuation and case aside, among the
\* volumes of a key
UniqueCount(key) ==
    Cardinality({NormalizedTitle(items[i].title) :
                    i \in {k \in 1 .. Len(items) :
                              HasSeries(items[k]) /\ SeriesKey(items[k]) = key}})

KeysOfItems == {SeriesKey(items[i]) : i \in {k \in 1 .. Len(items) : HasSeries(items[k])}}

\* C15: a group with fewer than 2 unique books is not in the search-series
\* output: every entry holds at least 2 books of pairwise different
\* normalized titles and comes from a group of at least 2 unique titles, and
\* the output is empty when no group has 2.
C15_NoSingletonSeries ==
    searchStatus = 200 =>
       /\ \A r \in 1 .. Len(seriesResults) :
             LET result == seriesResults[r]
             IN /\ Len(result.books) >= 2
                /\ \A i, j \in 1 .. Len(result.books) :
                      i # j => NormalizedTitle(result.books[i].title)
                                  # NormalizedTitle(result.books[j].title)
                /\ \E key \in KeysOfItems :
                      /\ UniqueCount(key) >= 2
                      /\ SplitFirst(key) = result.seriesName
                      /\ UniqueCount(key) = Len(result.books)
       /\ (\A key \in KeysOfItems : UniqueCount(key) < 2) => seriesResults = << >>

\* C15 witness: the search answered with volumes that form a group of two
\* volumes with one title between them, and the output is empty
C15_Witness ==
    /\ searchStatus = 200
    /\ seriesResults = << >>
    /\ \E key \in KeysOfItems :
          /\ UniqueCount(key) = 1
          /\ Len(SeriesDataBooks(items, key)) = 2

(***************************************************************************)
(* Claims about series detection, checked under SpecDetect.                *)
(***************************************************************************)
\* an order can be parsed from the title: it holds "book N", "#N", "(N)" or "volume N"
OrderParsed(title) ==
    \E i \in 1 .. Len(BasicPatterns) :
       MatchesAt(title, BasicPatterns[i].pre \o DigitsPattern \o BasicPatterns[i].post,
                 BasicPatterns[i].ci) # {}

\* C16: when the AI-assisted path has failed, in whatever way, detectSeries
\* resolves to the result of the title patterns: a series member with
\* confidence 0.5 if an order was parsed from the title, and no series member
\* with confidence 0.3 otherwise; an error response is never the result.
C16_FallsBackToPatterns ==
    (dpc = "done" /\ aiError # "none") =>
       /\ detectResult.isPartOfSeries = OrderParsed(bookInfo.title)
       /\ detectResult.confidence = IF OrderParsed(bookInfo.title) THEN 5 ELSE 3
       /\ detectResult.seriesName = << >>
       /\ OrderParsed(bookInfo.title) => detectResult.seriesOrder \in 1 .. 3

\* C16 witness: the route failed with status 500 after an unparsable answer,
\* and detectSeries resolved to the order parsed from the title
C16_Witness ==
    /\ dpc = "done"
    /\ aiError = "unparsable"
    /\ detectResponse.status = 500
    /\ detectResult.confidence = 5
    /\ detectResult.seriesOrder = 2


(***************************************************************************)
(* Claims about the reading statistics.                                    *)
(***************************************************************************)
\* C17: calling calculateReadingStatistics twice on the same books, daily
\* entries and settings yields identical output: whenever the route has
\* computed the stats twice from unchanged tables, the two results are equal.
C17_SameInputSameOutput ==
    Len(stats) = 2 => stats[1] = stats[2]


\* the stats of the reading analysis hold no count, rate, average or streak but 0,
\* no genre, author or series, no fastest read, and nothing divided by zero
ZeroAnalysis(s) ==
    /\ s.totalBooks = 0 /\ s.completedBooks = 0
    /\ s.currentlyReading = 0 /\ s.plannedBooks = 0
    /\ s.completionRate = 0
    /\ s.readingGoal = 0 /\ s.booksThisYear = 0 /\ s.goalProgress = 0
    /\ s.activeDays = 0 /\ s.totalPagesRead = 0 /\ s.averagePagesPerDay = 0
    /\ s.longestStreak = 0 /\ s.currentStreak = 0
    /\ s.genreDistribution = << >>
    /\ s.authorStats = << >>
    /\ s.seriesProgress = << >>
    /\ \A k \in 1 .. Len(s.monthlyStats) :
          s.monthlyStats[k].booksCompleted = 0 /\ s.monthlyStats[k].pagesRead = 0
    /\ s.averageTimePerBook = 0
    /\ s.fastestRead = NoRead
    /\ s.averageReadingDays = 0
    /\ s.booksByLength = [short |-> 0, medium |-> 0, long |-> 0]

\* the same of the dashboard's stats
ZeroDashboard(s) ==
    /\ s.totalBooks = 0 /\ s.booksThisYear = 0 /\ s.booksLastYear = 0
    /\ s.averageBooksPerMonth = 0 /\ s.completionRate = 0
    /\ s.favoriteGenres = << >>
    /\ s.currentStreak = 0
    /\ \A k \in 1 .. Len(s.monthlyStats) :
          s.monthlyStats[k].books = 0 /\ s.monthlyStats[k].pages = 0
    /\ s.readingGoalProgress = 0
    /\ s.totalPagesRead = 0 /\ s.averagePagesPerDay = 0

\* C18: for empty inputs (no books, no daily entries, no settings row) every
\* field of the statistics is 0, null or an empty collection (the months of
\* monthlyStats and the lengths of booksByLength count 0), and nothing is
\* divided by zero: completionRate, goalProgress, averagePagesPerDay, both
\* streaks and averageTimePerBook are 0 and there is no genre percentage.
\* The same holds of what the dashboard's loadStats computes.
C18_EmptyInputZeroStats ==
    userData = NoUserData =>
        /\ \A i \in 1 .. Len(stats) : ZeroAnalysis(stats[i])
        /\ ZeroDashboard(LoadStatsResult(userData, now))

\* C18 witness: the reading analysis has computed its stats from empty tables,
\* before and after the turn of the year
C18_Witness ==
    /\ userData = NoUserData
    /\ Len(stats) = 2
    /\ now = DaysPerYear + 1
    /\ stats[1] # stats[2]


\* the sum over all genres of genreDistribution[g].count
RECURSIVE SumCounts(_)
SumCounts(distribution) ==
    IF distribution = << >> THEN 0
    ELSE Head(distribution).count + SumCounts(Tail(distribution))

EveryBookHasGenre(arr) == \A i \in 1 .. Len(arr) : Len(arr[i].genre) >= 1

EveryBookHasOneGenre(arr) == \A i \in 1 .. Len(arr) : Len(arr[i].genre) = 1

\* C19 as stated: for every book set, the sum over all genres of
\* genreDistribution[g].count is at least the number of books, with equality
\* exactly when every book has exactly one genre.
C19_CountsCoverBooks ==
    \A i \in 1 .. Len(stats) :
        LET total == SumCounts(stats[i].genreDistribution)
        IN /\ total >= Len(userData.books)
           /\ total = Len(userData.books) <=> EveryBookHasOneGenre(userData.books)

\* C19 amended: for every book set in which every book has at least one genre,
\* the sum over all genres of genreDistribution[g].count is at least the number
\* of books, with equality exactly when every book has exactly one genre.
C19_CountsCoverBooksWithGenres ==
    \A i \in 1 .. Len(stats) :
        LET total == SumCounts(stats[i].genreDistribution)
        IN EveryBookHasGenre(userData.books) =>
              /\ total >= Len(userData.books)
              /\ total = Len(userData.books) <=> EveryBookHasOneGenre(userData.books)

\* C19 witness: the genre distribution of two books that share a genre, one of
\* them with a second genre, has been computed
C19_Witness ==
    /\ Len(stats) = 1
    /\ Len(userData.books) = 2
    /\ userData.books[1].genre = <<"g1">>
    /\ userData.books[2].genre = <<"g1", "g2">>
    /\ SumCounts(stats[1].genreDistribution) = 3


(***************************************************************************)
(* Claims about the goal progress.                                         *)
(***************************************************************************)
\* the books completed in the year of day t
CompletedInYearOf(t) ==
    Cardinality({i \in 1 .. Len(userData.books) :
                    /\ userData.books[i].date_completed # Null
                    /\ YearOf(userData.books[i].date_completed) = YearOf(t)})

\* n / goal * 100 rounded to the nearest integer, halves upwards
RoundedPercent(n, goal) ==
    CHOOSE q \in 0 .. (100 * n + 1) :
        2 * goal * q <= 200 * n + goal /\ 200 * n + goal < 2 * goal * (q + 1)

\* round(booksThisYear / goal * 100) clamped to [0, 100]; 0 for goal 0 or no row
ExpectedGoalProgress ==
    LET settings == userData.userSettings
    IN IF settings.exists /\ settings.reading_goal > 0
       THEN Max(0, Min(100, RoundedPercent(CompletedInYearOf(now), settings.reading_goal)))
       ELSE 0

\* C20: the goal progress shown to the user is round(booksThisYear / goal * 100)
\* clamped to [0, 100], and 0 when reading_goal is 0 or no settings row exists:
\* loadStats sets the dashboard's readingGoalProgress to that value, and
\* fetchReadingGoals sets the recommendations page's progressPercentage to it.
C20_GoalProgressShown ==
    [][/\ LoadStats => dashStats'.readingGoalProgress = ExpectedGoalProgress
       /\ FetchReadingGoals =>
              /\ readingGoals' # << >>
              /\ readingGoals'[1].progressPercentage = ExpectedGoalProgress]_vars


(***************************************************************************)
(* Claims about the counts, the series and the pace of the statistics.     *)
(***************************************************************************)
\* the number of the user's books with the status
BooksWithStatus(st) ==
    Cardinality({i \in 1 .. Len(userData.books) : userData.books[i].status = st})

\* C21: for every book list, totalBooks = completedBooks + currentlyReading
\* + plannedBooks, each count being the number of books of its status, and
\* completionRate = round(completedBooks / totalBooks * 100), which lies in
\* [0, 100] and is 0 when totalBooks = 0.
C21_CountsAndCompletionRate ==
    \A i \in 1 .. Len(stats) :
        LET s == stats[i]
        IN /\ s.totalBooks = Len(userData.books)
           /\ s.completedBooks = BooksWithStatus("past")
           /\ s.currentlyReading = BooksWithStatus("current")
           /\ s.plannedBooks = BooksWithStatus("planned")
           /\ s.totalBooks = s.completedBooks + s.currentlyReading + s.plannedBooks
           /\ s.completionRate >= 0 /\ s.completionRate <= 100
           /\ s.totalBooks = 0 => s.completionRate = 0
           /\ s.totalBooks > 0 =>
                 s.completionRate = RoundedPercent(s.completedBooks, s.totalBooks)

\* C21 witness: the stats of one completed and one planned book have been
\* computed, with a completion rate of 50
C21_Witness ==
    /\ Len(stats) = 1
    /\ Len(userData.books) = 2
    /\ BooksWithStatus("past") = 1
    /\ BooksWithStatus("planned") = 1
    /\ stats[1].completionRate = 50


\* the books of the analysed library that are part of the series of the name
SeriesMembers(name) ==
    {k \in 1 .. Len(userData.books) :
        userData.books[k].is_part_of_series /\ userData.books[k].series_name = name}

\* the series names of the analysed library
SeriesNamesRead ==
    {userData.books[k].series_name :
        k \in {j \in 1 .. Len(userData.books) :
                  /\ userData.books[j].is_part_of_series
                  /\ userData.books[j].series_name # "null"}}

\* C22: series progress has one entry per distinct series_name among the
\* books with is_part_of_series = true; its total is the number of those
\* books and its completed is the number of them with status 'past', so
\* 0 <= completed <= total and total >= 1, after any sequence of status changes.
C22_SeriesProgressCounts ==
    \A i \in 1 .. Len(stats) :
        LET progress == stats[i].seriesProgress
        IN /\ Len(progress) = Cardinality(SeriesNamesRead)
           /\ {progress[k].series : k \in 1 .. Len(progress)} = SeriesNamesRead
           /\ \A k \in 1 .. Len(progress) :
                 /\ progress[k].total = Cardinality(SeriesMembers(progress[k].series))
                 /\ progress[k].completed =
                       Cardinality({m \in SeriesMembers(progress[k].series) :
                                       userData.books[m].status = "past"})
                 /\ 0 <= progress[k].completed
                 /\ progress[k].completed <= progress[k].total
                 /\ progress[k].total >= 1

\* C22 witness: a book of a series of two was completed and then planned
\* again, the other one is completed, and the analysis counts 1 of 2
C22_Witness ==
    /\ Len(stats) = 1
    /\ stats[1].seriesProgress = <<[series |-> "S", total |-> 2, completed |-> 1]>>
    /\ \E k \in 1 .. Len(userData.books) :
          /\ userData.books[k].status = "planned"
          /\ userData.books[k].date_completed # Null


\* the books the reading pace is computed over, by their place in the list
PacedBooks ==
    {k \in 1 .. Len(userData.books) :
        /\ userData.books[k].status = "past"
        /\ userData.books[k].date_added # Null
        /\ userData.books[k].date_completed # Null}

DaysToRead(k) == userData.books[k].date_completed - userData.books[k].date_added

\* the first of the books read in the fewest days
FirstFastest ==
    CHOOSE k \in PacedBooks :
        \A j \in PacedBooks : DaysToRead(k) < DaysToRead(j) \/ (DaysToRead(k) = DaysToRead(j) /\ k <= j)

RECURSIVE DaysOf(_)
DaysOf(ks) ==
    IF ks = {} THEN 0
    ELSE LET k == CHOOSE x \in ks : TRUE IN DaysToRead(k) + DaysOf(ks \ {k})

\* what stands for an absent (undefined) average
Undefined == 0 - 2

\* the fastest read and the average are those of the books the pace is computed over
PaceOfQualifying(s) ==
    PacedBooks # {} =>
        /\ s.fastestRead.title = userData.books[FirstFastest].title
        /\ s.fastestRead.days = DaysToRead(FirstFastest)
        /\ \A j \in PacedBooks : s.fastestRead.days <= DaysToRead(j)
        /\ 2 * Cardinality(PacedBooks) * s.averageTimePerBook
              <= 2 * DaysOf(PacedBooks) + Cardinality(PacedBooks)
        /\ 2 * DaysOf(PacedBooks) + Cardinality(PacedBooks)
              < 2 * Cardinality(PacedBooks) * (s.averageTimePerBook + 1)
        /\ s.averageReadingDays = s.averageTimePerBook

\* C23 as stated: reading pace is computed over the books with status 'past'
\* and both dates present; fastestRead is the book with the minimum
\* daysToRead, the first in input order on ties; and both the average and
\* the fastest book are absent when no book qualifies.
C23_PaceAbsentWithoutBooks ==
    \A i \in 1 .. Len(stats) :
        /\ PaceOfQualifying(stats[i])
        /\ PacedBooks = {} =>
              /\ stats[i].fastestRead = NoRead
              /\ stats[i].averageTimePerBook = Undefined

\* C23 amended: as stated, but when no book qualifies the fastest book is
\* absent (null) and the average is 0.
C23_PaceZeroWithoutBooks ==
    \A i \in 1 .. Len(stats) :
        /\ PaceOfQualifying(stats[i])
        /\ PacedBooks = {} =>
              /\ stats[i].fastestRead = NoRead
              /\ stats[i].averageTimePerBook = 0
              /\ stats[i].averageReadingDays = 0

\* C23 witness: two completed books read in the same number of days, the
\* fastest read being the first of them
C23_Witness ==
    /\ Len(stats) = 1
    /\ PacedBooks = {1, 2}
    /\ DaysToRead(1) = DaysToRead(2)
    /\ stats[1].fastestRead.title = "t1"


(***************************************************************************)
(* Claims about the groups of search-series, checked under SpecSearch.     *)
(***************************************************************************)
\* the title yields an order
OrderFound(title) == ExtractSeriesInfo(title).order # Null

\* the place of the first volume of the title in the answer of Google Books
DiscoveredAt(title) ==
    CHOOSE i \in 1 .. Len(items) :
        items[i].title = title /\ \A j \in 1 .. (i - 1) : items[j].title # title

\* C24: within each returned series group the books are in ascending order,
\* and every book whose title yielded no order comes after all books with a
\* parsed order, the books without one in discovery order.
C24_UnorderedBooksLast ==
    searchStatus = 200 =>
       \A r \in 1 .. Len(seriesResults) :
          LET group == seriesResults[r].books
          IN \A i, j \in 1 .. Len(group) :
                i < j =>
                   /\ group[i].order <= group[j].order
                   /\ OrderFound(group[j].title) => OrderFound(group[i].title)
                   /\ (~OrderFound(group[i].title) /\ ~OrderFound(group[j].title)) =>
                         DiscoveredAt(group[i].title) < DiscoveredAt(group[j].title)


\* the relevance of a returned group
Relevance(result) == 2 * Len(result.books) + result.totalBooks

\* the place in the answer of Google Books of the first book of the group
FirstSeen(result) ==
    LET places == {i \in 1 .. Len(items) :
                      /\ HasSeries(items[i])
                      /\ SplitFirst(SeriesKey(items[i])) = result.seriesName
                      /\ items[i].author = result.author}
    IN CHOOSE p \in places : \A q \in places : p <= q

\* C25: the returned series groups are sorted in descending order of
\* relevance = 2 * bookCount + totalBooks, and groups with equal relevance
\* keep their first-seen order.
C25_SortedByRelevance ==
    searchStatus = 200 =>
       \A r, s \in 1 .. Len(seriesResults) :
          r < s =>
             /\ Relevance(seriesResults[r]) >= Relevance(seriesResults[s])
             /\ Relevance(seriesResults[r]) = Relevance(seriesResults[s]) =>
                   FirstSeen(seriesResults[r]) < FirstSeen(seriesResults[s])

\* C25 witness: a group of three is returned before a group of two that was
\* seen first
C25_Witness ==
    /\ searchStatus = 200
    /\ Len(seriesResults) = 2
    /\ Len(seriesResults[1].books) = 3
    /\ Len(seriesResults[2].books) = 2
    /\ FirstSeen(seriesResults[2]) < FirstSeen(seriesResults[1])


\* the key of seriesMap a returned group was made from
KeyOf(result) == SeriesKey(result.books[1])

\* in the group, the book at place h comes before the book at place g in
\* group order: by ascending order, and by discovery among equal orders
GroupOrderBefore(group, h, g) ==
    \/ group[h].order < group[g].order
    \/ group[h].order = group[g].order /\ h <= g

\* C26: no returned series group contains two books whose titles are equal
\* after lower-casing and stripping punctuation; of several candidates with
\* the same normalized title the first in group order is the one kept.
C26_FirstOfEachTitleKept ==
    searchStatus = 200 =>
       \A r \in 1 .. Len(seriesResults) :
          LET kept == seriesResults[r].books
              group == SeriesDataBooks(items, KeyOf(seriesResults[r]))
          IN /\ \A i, j \in 1 .. Len(kept) :
                   NormalizedTitle(kept[i].title) = NormalizedTitle(kept[j].title) => i = j
             /\ \A g \in 1 .. Len(group) :
                   \E k \in 1 .. Len(kept), h \in 1 .. Len(group) :
                      /\ kept[k] = group[h]
                      /\ NormalizedTitle(kept[k].title) = NormalizedTitle(group[g].title)
                      /\ GroupOrderBefore(group, h, g)

\* C26 witness: a returned group was made of two candidates of one normalized
\* title, and the one kept was discovered after the one dropped
C26_Witness ==
    /\ searchStatus = 200
    /\ \E r \in 1 .. Len(seriesResults) :
          LET kept == seriesResults[r].books
              group == SeriesDataBooks(items, KeyOf(seriesResults[r]))
          IN \E k \in 1 .. Len(kept), h, g \in 1 .. Len(group) :
                /\ kept[k] = group[h]
                /\ g < h
                /\ group[g] # group[h]
                /\ NormalizedTitle(group[g].title) = NormalizedTitle(group[h].title)


\* C30: for every returned series group, the reported seriesName equals the
\* series name that extractSeriesInfo produced for the books of the group,
\* names that contain a '-' included, and the reported totalBooks is at least
\* the number of books in the group.
C30_NameAndTotalOfGroup ==
    searchStatus = 200 =>
       \A r \in 1 .. Len(seriesResults) :
          /\ \A k \in 1 .. Len(seriesResults[r].books) :
                seriesResults[r].seriesName
                   = ExtractSeriesInfo(seriesResults[r].books[k].title).seriesName
          /\ seriesResults[r].totalBooks >= Len(seriesResults[r].books)


(***************************************************************************)
(* Claims about the dashboard's messages, checked under SpecDash.          *)
(***************************************************************************)
\* the step in which the dashboard's updateProgress gets past its Promise.all
DashReturns == pc["dash"] = "busy" /\ pc'["dash"] = "idle"

\* C29: the dashboard's updateProgress shows 'Progress updated successfully'
\* and resets the input only if both the daily_reading upsert and the books
\* update succeeded; when either storage call returns an error, the error
\* state is set, no success is shown and the input is left as typed.
C29_SuccessOnlyIfBothSucceeded ==
    [][DashReturns =>
          IF call'["dash"].progress = "ok" /\ call'["dash"].update = "ok"
          THEN updateSuccess' /\ pagesRead'["dash"] = 0
          ELSE /\ dashError' # "null"
               /\ updateSuccess' = updateSuccess
               /\ pagesRead'["dash"] = pagesRead["dash"]]_vars


(***************************************************************************)
(* Claims about confirmDeleteBook, checked under SpecDelete.               *)
(***************************************************************************)
\* the step in which the row of book b leaves the books table
RowDeleted(b) == BookExists(b) /\ ~BookExists(b)'

\* C28: deleting a series book removes the daily_reading rows of the book
\* before the book row, and if deleting the daily_reading rows fails the
\* book row is not deleted: a books row goes only in the second step of
\* confirmDeleteBook and with no daily_reading row of the book left, and in
\* no reachable state does a daily_reading row reference a book that has
\* been deleted through confirmDeleteBook.
C28_NoReadingOfDeletedBook ==
    /\ [](\A r \in daily_reading : r.book_id \notin deletedBooks)
    /\ [][\A b \in BookIds :
             RowDeleted(b) => /\ delpc = "book"
                              /\ deleteDialog = b
                              /\ \A r \in daily_reading : r.book_id # b]_vars

\* C28 witness: a book whose reading had been logged has been deleted
C28_Witness ==
    /\ "b1" \in deletedBooks
    /\ call["rp"].progress = "ok"
    /\ toast = "deleted"


(***************************************************************************)
(* Claims about POST /api/add-series, checked under SpecAdd.               *)
(***************************************************************************)
\* every book of the request has a row of its lower-cased title already
AllExist(requested, rows) ==
    \A k \in 1 .. Len(requested) : ToLowerCase(requested[k]) \in ExistingTitles(rows)

\* C27: after any sequence or interleaving of add-series requests by one user
\* for the same series, the library holds no two books with the same
\* series_name and the same title compared case-insensitively; each response
\* satisfies added + skipped = number of books in the request, and a request
\* whose titles all exist already inserts nothing.
C27_NoDuplicateBooksOfSeries ==
    /\ [](/\ NoDuplicateTitles(shelf)
          /\ \A p \in AddRequests :
                (addReq[p].pc = "done" /\ addReq[p].status = 200) =>
                   addReq[p].added + addReq[p].skipped = Len(addReq[p].books))
    /\ [][\A p \in AddRequests :
             (addReq[p].pc = "idle" /\ addReq'[p].pc # "idle"
              /\ addReq'[p].status # 500 /\ AllExist(addReq'[p].books, shelf)) =>
                 /\ addReq'[p].pc = "done"
                 /\ addReq'[p].added = 0
                 /\ shelf' = shelf]_vars

\* the counts of every answer add up, and a request whose titles all exist
\* inserts nothing
AddSeriesCountsAddUp ==
    /\ [](\A p \in AddRequests :
             (addReq[p].pc = "done" /\ addReq[p].status = 200) =>
                addReq[p].added + addReq[p].skipped = Len(addReq[p].books))
    /\ [][\A p \in AddRequests :
             (addReq[p].pc = "idle" /\ addReq'[p].pc # "idle"
              /\ addReq'[p].status # 500 /\ AllExist(addReq'[p].books, shelf)) =>
                 /\ addReq'[p].pc = "done"
                 /\ addReq'[p].added = 0
                 /\ shelf' = shelf]_vars

====
